---- MODULE Spec2Model ----
(***************************************************************************)
(* A model of the parallel multi-model evaluation / judged ranking script  *)
(* (elchanio_wk1_lab2_llm_parallel_evaluation.py).                         *)
(*                                                                         *)
(* Text is modelled as a sequence of tokens.  A token is a single          *)
(* structural character ("{", "}", "[", "]", ":", ",", the double quote,   *)
(* a blank, a letter or digit of a competitor id) or an indivisible run of *)
(* characters that contains none of these (a word of prose, the key names  *)
(* results / response, an error message).                                  *)
(*                                                                         *)
(* A Python dict is modelled as the sequence of its <<key, value>> items   *)
(* in insertion order, which is the order Python iterates it in.           *)
(***************************************************************************)
EXTENDS Integers, Sequences, FiniteSets, TLC

\* ------------------------------------------------------------------ bounds

\* How many entries of main's `models` dict are requested (a prefix of it).
MaxAnswerModels == 2
\* How many entries of main's `judging_models` dict are requested (a prefix).
MaxJudges == 2
\* Longest ranking a judge text of the parser specification lists.
MaxRanking == 3

\* Most judges whose rankings the aggregator specification draws freely.
MaxAggJudges == 2

\* Longest text, in characters, handed to the chunker; largest chunk_size and
\* overlap_size, in tokens, a chunker is built with.
MaxTextLen == 6

MaxChunkSize == 2

MaxOverlap == 1

\* Most captions in one WebVTT content, and most parse_content calls made on
\* one VTTParser.
MaxCaptions == 2

MaxParseCalls == 2

\* Most runs of call_single_model counted for one provider in one round.
MaxInvocations == 2

\* Most entries of sorted_results the display specification prints.
MaxShown == 2

\* Most operations performed on one OllamaService, and most prompts handed to
\* one generate_multiple_async call.
MaxOllamaOps == 4

MaxPrompts == 2

\* Most steps of one EngineeringFlow run that are followed.
MaxFlowSteps == 20

\* ----------------------------------------------------------- Python values

\* A str value, and None.
PyStr(t) == [isNone |-> FALSE, text |-> t]

PyNone == [isNone |-> TRUE, text |-> <<>>]

SeqMin(S) == CHOOSE x \in S : \A y \in S : x <= y

\* dict[key] = value: an existing key keeps its place, a new key goes last.
DictSet(d, key, value) ==
    IF \E i \in 1..Len(d) : d[i][1] = key
    THEN [i \in 1..Len(d) |-> IF d[i][1] = key THEN <<key, value>> ELSE d[i]]
    ELSE Append(d, <<key, value>>)

\* Mutant: the keys in reverse order.
DictKeys_Reversed(d) == [i \in 1..Len(d) |-> d[Len(d) + 1 - i][1]]

\* list(d.keys()) and list(d.values()).
DictKeys(d) == [i \in 1..Len(d) |-> d[i][1]]

DictValues(d) == [i \in 1..Len(d) |-> d[i][2]]

DictHas(d, key) == \E i \in 1..Len(d) : d[i][1] = key

DictGet(d, key) == d[CHOOSE i \in 1..Len(d) : d[i][1] = key][2]

\* ------------------------------------------------------------- JSON values

\* json.loads results: a str, a list, a dict (its items in document order).
JStr(s) == [k |-> "str", s |-> s, items |-> <<>>]

JArr(items) == [k |-> "arr", s |-> <<>>, items |-> items]

JObj(members) == [k |-> "obj", s |-> <<>>, items |-> members]

\* One "key": value member of an object.
JMem(key, val) == [k |-> "mem", s |-> key, items |-> <<val>>]

\* --------------------------------------------------------------- text scan

StartsAt(text, pat, i) ==
    /\ i + Len(pat) - 1 <= Len(text)
    /\ SubSeq(text, i, i + Len(pat) - 1) = pat

\* str.find: the first index (from 1) where pat starts, 0 when there is none.
Find(text, pat) ==
    LET S == {i \in 1..Len(text) : StartsAt(text, pat, i)}
    IN  IF S = {} THEN 0 ELSE SeqMin(S)

\* The literal prefix {"results" of the pattern, and the marker {"response".
ResultsMarker == <<"{", "\"", "results", "\"">>

ResponseMarker == <<"{", "\"", "response", "\"">>

\* Mutant: re.match in place of re.search, a match only at the start of the text.
RegexSearch_Anchored(text) ==
    LET ends == {j \in (1 + Len(ResultsMarker))..Len(text) : text[j] = "}"}
    IN  IF ~StartsAt(text, ResultsMarker, 1) \/ ends = {} THEN <<>>
        ELSE SubSeq(text, 1, SeqMin(ends))

\* Mutant: a greedy ".*", the match runs to the last "}" of the text.
RegexSearch_Greedy(text) ==
    LET s == Find(text, ResultsMarker)
        ends == {j \in (s + Len(ResultsMarker))..Len(text) : text[j] = "}"}
    IN  IF s = 0 \/ ends = {} THEN <<>>
        ELSE SubSeq(text, s, CHOOSE j \in ends : \A k \in ends : k <= j)

\* re.search(r'(\{"results".*?\})', text, re.DOTALL): the leftmost {"results"
\* up to the first "}" after it; <<>> when nothing matches.
RegexSearch(text) ==
    LET s == Find(text, ResultsMarker)
        ends == {j \in (s + Len(ResultsMarker))..Len(text) : text[j] = "}"}
    IN  IF s = 0 \/ ends = {} THEN <<>> ELSE SubSeq(text, s, SeqMin(ends))

\* ------------------------------------------------------------- json.loads

JFail == [ok |-> FALSE, val |-> JStr(<<>>), next |-> 0]

JOk(val, next) == [ok |-> TRUE, val |-> val, next |-> next]

\* Skip blanks from index i on.
SkipWs(t, i) ==
    LET S == {j \in i..Len(t) : t[j] # " "}
    IN  IF S = {} THEN Len(t) + 1 ELSE SeqMin(S)

\* A string literal opening at t[i]: everything up to the next quote.
ParseString(t, i) ==
    LET close == {j \in (i + 1)..Len(t) : t[j] = "\""}
    IN  IF close = {} THEN JFail
        ELSE JOk(JStr(SubSeq(t, i + 1, SeqMin(close) - 1)), SeqMin(close) + 1)

RECURSIVE ParseValue(_, _)
RECURSIVE ParseArrayItems(_, _, _)
RECURSIVE ParseMembers(_, _, _)

\* The value starting at t[i] (blanks already skipped): a string, an array or
\* an object; anything else is a decode error.
ParseValue(t, i) ==
    IF i > Len(t) THEN JFail
    ELSE IF t[i] = "\"" THEN ParseString(t, i)
    ELSE IF t[i] = "["
    THEN LET j == SkipWs(t, i + 1)
         IN  IF j <= Len(t) /\ t[j] = "]" THEN JOk(JArr(<<>>), j + 1)
             ELSE ParseArrayItems(t, j, <<>>)
    ELSE IF t[i] = "{"
    THEN LET j == SkipWs(t, i + 1)
         IN  IF j <= Len(t) /\ t[j] = "}" THEN JOk(JObj(<<>>), j + 1)
             ELSE ParseMembers(t, j, <<>>)
    ELSE JFail

ParseArrayItems(t, i, acc) ==
    LET r == ParseValue(t, i)
    IN  IF ~r.ok THEN JFail
        ELSE LET j == SkipWs(t, r.next)
             IN  IF j > Len(t) THEN JFail
                 ELSE IF t[j] = ","
                 THEN ParseArrayItems(t, SkipWs(t, j + 1), Append(acc, r.val))
                 ELSE IF t[j] = "]" THEN JOk(JArr(Append(acc, r.val)), j + 1)
                 ELSE JFail

ParseMembers(t, i, acc) ==
    IF i > Len(t) \/ t[i] # "\"" THEN JFail
    ELSE LET key == ParseString(t, i)
             c == SkipWs(t, key.next)
         IN  IF ~key.ok \/ c > Len(t) \/ t[c] # ":" THEN JFail
             ELSE LET r == ParseValue(t, SkipWs(t, c + 1))
                  IN  IF ~r.ok THEN JFail
                      ELSE LET j == SkipWs(t, r.next)
                               mem == JMem(key.val.s, r.val)
                           IN  IF j > Len(t) THEN JFail
                               ELSE IF t[j] = ","
                               THEN ParseMembers(t, SkipWs(t, j + 1), Append(acc, mem))
                               ELSE IF t[j] = "}"
                               THEN JOk(JObj(Append(acc, mem)), j + 1)
                               ELSE JFail

\* json.loads(t): one value, blanks around it, nothing after it.  Numbers,
\* true/false/null and escapes do not occur in the texts modelled.
JsonLoads(t) ==
    LET r == ParseValue(t, SkipWs(t, 1))
    IN  IF r.ok /\ SkipWs(t, r.next) > Len(t) THEN r ELSE JFail

\* --------------------------------------------------------- judgment parser

\* What extract_json_response returns: a parsed value, or None.
NoJson == [none |-> TRUE, val |-> JStr(<<>>)]

SomeJson(val) == [none |-> FALSE, val |-> val]

\* Brace-counting fallback: from the first {"response", every "}" at which
\* the running count of "{" minus "}" is zero is tried in turn.
ExtractCompleteJson(text) ==
    LET start == Find(text, ResponseMarker)
        Count(i) == Cardinality({j \in start..i : text[j] = "{"})
                    - Cardinality({j \in start..i : text[j] = "}"})
        good == {i \in start..Len(text) :
                    /\ text[i] = "}"
                    /\ Count(i) = 0
                    /\ JsonLoads(SubSeq(text, start, i)).ok}
    IN  IF start = 0 \/ good = {} THEN NoJson
        ELSE SomeJson(JsonLoads(SubSeq(text, start, SeqMin(good))).val)

\* Mutant: the scan is also tried when the pattern matches nothing.
ExtractJsonResponse_AlwaysScan(text) ==
    LET json_str == RegexSearch(text)
    IN  IF json_str # <<>> /\ JsonLoads(json_str).ok
        THEN SomeJson(JsonLoads(json_str).val)
        ELSE ExtractCompleteJson(text)

\* extract_json_response: the regex span decoded; the scan when decoding
\* fails; None when the pattern matches nothing.
ExtractJsonResponse(text) ==
    LET json_str == RegexSearch(text)
    IN  IF json_str = <<>> THEN NoJson
        ELSE IF JsonLoads(json_str).ok THEN SomeJson(JsonLoads(json_str).val)
        ELSE ExtractCompleteJson(text)

\* dict lookup parsed[key] on a parsed object: the last member of that name.
HasMember(obj, key) == \E i \in 1..Len(obj.items) : obj.items[i].s = key

Member(obj, key) ==
    LET S == {i \in 1..Len(obj.items) : obj.items[i].s = key}
    IN  obj.items[CHOOSE i \in S : \A j \in S : j <= i].items[1]

\* One pass of the loop body over an evaluation: parsed["results"], or [] when
\* anything raises (None is not text, None is not subscriptable, no such key).
RankingOf(evaluation) ==
    IF evaluation.isNone THEN JArr(<<>>)
    ELSE LET parsed == ExtractJsonResponse(evaluation.text)
         IN  IF parsed.none THEN JArr(<<>>)
             ELSE IF parsed.val.k = "obj" /\ HasMember(parsed.val, <<"results">>)
             THEN Member(parsed.val, <<"results">>)
             ELSE JArr(<<>>)

\* ---------------------------------------------------------- rank aggregator

\* What iterating a ranking value yields: the items of a list, the characters
\* of a str, the keys of a dict (each once, in first-seen order).
IterItems(v) ==
    IF v.k = "arr" THEN v.items
    ELSE IF v.k = "str" THEN [i \in 1..Len(v.s) |-> JStr(<<v.s[i]>>)]
    ELSE LET first == {i \in 1..Len(v.items) :
                          \A j \in 1..(i - 1) : v.items[j].s # v.items[i].s}
             nth(n) == CHOOSE i \in first : Cardinality({j \in first : j <= i}) = n
         IN  [n \in 1..Cardinality(first) |-> JStr(v.items[nth(n)].s)]

\* Only a str can be a key of contestant_rankings; a list or dict raises.
Hashable(v) == v.k = "str"

RECURSIVE AddPositions_ZeroBased(_, _, _)
\* Mutant: enumerate(judge_ranking) without the start 1, positions from 0.
AddPositions_ZeroBased(d, items, pos) ==
    IF pos > Len(items) THEN d
    ELSE LET c == items[pos].s
             old == IF DictHas(d, c) THEN DictGet(d, c) ELSE <<>>
         IN  AddPositions_ZeroBased(DictSet(d, c, Append(old, pos - 1)), items, pos + 1)

RECURSIVE AddPositions(_, _, _)
\* for position, contestant in enumerate(judge_ranking, 1): append position.
AddPositions(d, items, pos) ==
    IF pos > Len(items) THEN d
    ELSE LET c == items[pos].s
             old == IF DictHas(d, c) THEN DictGet(d, c) ELSE <<>>
         IN  AddPositions(DictSet(d, c, Append(old, pos)), items, pos + 1)

RECURSIVE ContestantRankings(_, _)
\* contestant_rankings after the first j judge rankings.
ContestantRankings(rankings, j) ==
    IF j = 0 THEN <<>>
    ELSE AddPositions(ContestantRankings(rankings, j - 1), IterItems(rankings[j]), 1)

RECURSIVE Sum(_)
Sum(ranks) == IF ranks = <<>> THEN 0 ELSE Head(ranks) + Sum(Tail(ranks))

\* sum(ranks)/len(ranks), kept as the fraction num/den.
Average(ranks) == [num |-> Sum(ranks), den |-> Len(ranks)]

AvgLess(a, b) == a.num * b.den < b.num * a.den

\* Mutant: each of C1, C2, C3 that no ranking mentions is added with the worst
\* rank.
AverageRankings_WorstRank(cr) ==
    LET all == << <<"C", "1">>, <<"C", "2">>, <<"C", "3">> >>
        missing == {k \in 1..3 : ~DictHas(cr, all[k])}
        nth(n) == CHOOSE k \in missing : Cardinality({m \in missing : m <= k}) = n
    IN  [i \in 1..Len(cr) |-> <<cr[i][1], Average(cr[i][2])>>]
        \o [n \in 1..Cardinality(missing) |-> <<all[nth(n)], Average(<<3>>)>>]

\* average_rankings: one item per contestant with a non-empty list of ranks.
AverageRankings(cr) == [i \in 1..Len(cr) |-> <<cr[i][1], Average(cr[i][2])>>]

\* Mutant: an unstable sort, equal averages come out in reverse order.
SortedResults_TiesReversed(avg) ==
    LET place(i) == 1 + Cardinality({j \in 1..Len(avg) :
                        \/ AvgLess(avg[j][2], avg[i][2])
                        \/ (~AvgLess(avg[i][2], avg[j][2]) /\ j > i)})
    IN  [n \in 1..Len(avg) |-> avg[CHOOSE i \in 1..Len(avg) : place(i) = n]]

\* sorted(items, key=average): ascending and stable.
SortedResults(avg) ==
    LET place(i) == 1 + Cardinality({j \in 1..Len(avg) :
                        \/ AvgLess(avg[j][2], avg[i][2])
                        \/ (~AvgLess(avg[i][2], avg[j][2]) /\ j < i)})
    IN  [n \in 1..Len(avg) |-> avg[CHOOSE i \in 1..Len(avg) : place(i) = n]]

\* Some judge ranking holds an unhashable contestant: the loop raises TypeError.
RankingsRaise(rankings) ==
    \E j \in 1..Len(rankings) :
        \E i \in 1..Len(IterItems(rankings[j])) : ~Hashable(IterItems(rankings[j])[i])

\* -------------------------------------------------------------- id to model

\* str.lower() on an id: the letter C is the only capital the ids use.
Lower(s) == [i \in 1..Len(s) |-> IF s[i] = "C" THEN "c" ELSE s[i]]

\* str.strip(chars): drop every leading and trailing token that is in chars.
Strip(s, chars) ==
    LET keep == {i \in 1..Len(s) : s[i] \notin chars}
    IN  IF keep = {} THEN <<>>
        ELSE SubSeq(s, SeqMin(keep), CHOOSE i \in keep : \A j \in keep : j <= i)

Digits == <<"0", "1", "2", "3", "4", "5", "6", "7", "8", "9">>

IsDigit(c) == \E d \in 1..10 : Digits[d] = c

DigitVal(c) == (CHOOSE d \in 1..10 : Digits[d] = c) - 1

RECURSIVE DecimalValue(_)
DecimalValue(s) ==
    IF s = <<>> THEN 0
    ELSE 10 * DecimalValue(SubSeq(s, 1, Len(s) - 1)) + DigitVal(s[Len(s)])

\* int(s): blanks around an optional sign and a non-empty run of digits;
\* anything else raises ValueError.
IntOf(s) ==
    LET body == Strip(s, {" "})
        signed == body # <<>> /\ body[1] \in {"-", "+"}
        digits == IF signed THEN Tail(body) ELSE body
    IN  IF digits # <<>> /\ \A i \in 1..Len(digits) : IsDigit(digits[i])
        THEN [ok |-> TRUE,
              val |-> IF signed /\ body[1] = "-" THEN 0 - DecimalValue(digits)
                      ELSE DecimalValue(digits)]
        ELSE [ok |-> FALSE, val |-> 0]

\* competitors[k] for a Python index k: negative indices count from the end,
\* an index outside -n..n-1 raises IndexError.
PyIndex(list, k) ==
    IF 0 <= k /\ k < Len(list) THEN [ok |-> TRUE, val |-> list[k + 1]]
    ELSE IF k < 0 /\ -k <= Len(list) THEN [ok |-> TRUE, val |-> list[Len(list) + k + 1]]
    ELSE [ok |-> FALSE, val |-> ""]

\* Mutant: the index is used without the "- 1".
CompetitorName_NoOffset(competitors, competitor) ==
    LET n == IntOf(Strip(Lower(competitor), {"c"}))
    IN  IF n.ok THEN PyIndex(competitors, n.val) ELSE [ok |-> FALSE, val |-> ""]

\* competitors[int(competitor.lower().strip('c')) - 1]
CompetitorName(competitors, competitor) ==
    LET n == IntOf(Strip(Lower(competitor), {"c"}))
    IN  IF n.ok THEN PyIndex(competitors, n.val - 1) ELSE [ok |-> FALSE, val |-> ""]

\* A printed line: a diagnostic, or one line of the final ranking.
Line(kind, what) ==
    [kind |-> kind, what |-> what, rank |-> 0, id |-> <<>>, avg |-> Average(<<>>)]

\* The line printed for the n-th entry of sorted_results.
ResultLine(competitors, sorted_results, n) ==
    LET name == CompetitorName(competitors, sorted_results[n][1])
    IN  IF name.ok
        THEN [kind |-> "rank", what |-> name.val, rank |-> n,
              id |-> sorted_results[n][1], avg |-> sorted_results[n][2]]
        ELSE [kind |-> "error", what |-> "Error processing competitor", rank |-> 0,
              id |-> sorted_results[n][1], avg |-> Average(<<>>)]

\* ------------------------------------------------------- program constants

\* main's `models` dict, as its items in source order.
ModelsDict ==
    << <<"bedrock", "us.meta.llama3-3-70b-instruct-v1:0">>,
       <<"anthropic", "claude-3-7-sonnet-latest">>,
       <<"openai", "gpt-5-mini">>,
       <<"google", "gemini-2.5-flash">>,
       <<"xai", "grok-3-mini">>,
       <<"ollama", "gpt-oss:20b">> >>

\* main's `judging_models` dict.
JudgingModelsDict ==
    << <<"bedrock", "us.amazon.nova-pro-v1:0">>,
       <<"anthropic", "claude-sonnet-4-20250514">>,
       <<"openai", "o3-mini">>,
       <<"google", "gemini-2.5-pro">> >>

Prefix(seq, n) == SubSeq(seq, 1, IF n < Len(seq) THEN n ELSE Len(seq))

\* The (provider, model) items a round requests.
Requested(rnd) ==
    IF rnd = "answers" THEN Prefix(ModelsDict, MaxAnswerModels)
    ELSE Prefix(JudgingModelsDict, MaxJudges)

\* The providers setup_environment may register: those a round asks for, and
\* ollama, which generates the question.
Providers ==
    {Requested("answers")[i][1] : i \in 1..Len(Requested("answers"))}
    \cup {Requested("judgment")[i][1] : i \in 1..Len(Requested("judgment"))}
    \cup {"ollama"}

\* ------------------------------------------------------------ provider calls

\* What a provider's API call does: returns text, returns no content, raises.
ApiText(t) == [kind |-> "text", text |-> t]

ApiNone == [kind |-> "none", text |-> <<>>]

ApiRaise(msg) == [kind |-> "raise", text |-> msg]

NotCalled == [kind |-> "notcalled", text |-> <<>>]

\* Competitor id Ck as tokens.
RECURSIVE DecimalTokens(_)
DecimalTokens(n) ==
    IF n < 10 THEN <<Digits[n + 1]>>
    ELSE Append(DecimalTokens(n \div 10), Digits[(n % 10) + 1])

IdTokens(k) == <<"C">> \o DecimalTokens(k)

\* f"C{index+1}" for each of n competitors, and its reverse.
IdsUpTo(n) == [k \in 1..n |-> IdTokens(k)]

Reversed(seq) == [i \in 1..Len(seq) |-> seq[Len(seq) + 1 - i]]

RECURSIVE JoinIds(_)
\* "C1","C2",... as tokens: quoted ids separated by commas.
JoinIds(ids) ==
    IF ids = <<>> THEN <<>>
    ELSE IF Len(ids) = 1 THEN <<"\"">> \o ids[1] \o <<"\"">>
    ELSE <<"\"">> \o ids[1] \o <<"\"", ",">> \o JoinIds(Tail(ids))

\* The text {"results": [ids...]} a judge is asked to answer with.
ResultsJson(ids) ==
    <<"{", "\"", "results", "\"", ":", " ", "[">> \o JoinIds(ids) \o <<"]", "}">>

\* What the API may do in each round.  An answer is opaque text; a judge of n
\* competitors may rank them all, rank them reversed inside prose, or answer
\* with prose only.
ApiOutcomes(rnd, model, n) ==
    IF rnd = "answers"
    THEN {ApiText(<<"answer of ", model>>), ApiNone, ApiRaise(<<"timeout">>)}
    ELSE {ApiText(ResultsJson(IdsUpTo(n))),
          ApiText(<<"Sure!", " ">> \o ResultsJson(Reversed(IdsUpTo(n)))
                  \o <<" ", "thanks">>),
          ApiText(<<"I", " ", "cannot", " ", "rank", " ", "these">>),
          ApiRaise(<<"timeout">>)}

\* A finished future: what future.result() gives or raises.
Result(provider, model, response) ==
    [provider |-> provider, model |-> model, raised |-> FALSE, response |-> response]

\* Mutant: no try/except, the exception of the call leaves the task.
CallSingleModel_Propagates(provider, model, api) ==
    IF api.kind = "raise"
    THEN [provider |-> provider, model |-> model, raised |-> TRUE, response |-> PyNone]
    ELSE IF api.kind = "none" THEN Result(provider, model, PyNone)
    ELSE Result(provider, model, PyStr(api.text))

\* call_single_model: the pair (model, response); an exception of the call
\* becomes the response "Error: <message>".
CallSingleModel(provider, model, api) ==
    IF api.kind = "raise" THEN Result(provider, model, PyStr(<<"Error: ">> \o api.text))
    ELSE IF api.kind = "none" THEN Result(provider, model, PyNone)
    ELSE Result(provider, model, PyStr(api.text))

NoClientError(provider) == PyStr(<<"Error: ", "No client available for ", provider>>)

\* Mutant: the else branch only warns and stores nothing.
MissingClient_Skip(responses, provider, model) == responses

\* The else branch of the submit loop: the provider has no client.
MissingClient(responses, provider, model) ==
    DictSet(responses, model, NoClientError(provider))

\* Mutant: results are paired with the requested models by arrival, the n-th
\* result stored under the n-th requested model.
CollectResult_ByArrival(responses, result) ==
    LET items == IF \E i \in 1..Len(Requested("answers")) :
                        Requested("answers")[i][2] = result.model
                 THEN Requested("answers") ELSE Requested("judgment")
        n == Len(responses) + 1
    IN  IF result.raised \/ n > Len(items) THEN responses
        ELSE DictSet(responses, items[n][2], result.response)

\* The body of the as_completed loop: a result is stored under its model id; a
\* future whose result() raises is reported and leaves no entry.
CollectResult(responses, result) ==
    IF result.raised THEN responses
    ELSE DictSet(responses, result.model, result.response)

\* Mutant: a task whose call raised stays scheduled and runs again.
AfterCall_RetryOnError(running, task, outcome) ==
    IF outcome.kind = "raise" THEN running ELSE running \ {task}

\* A task submitted to the executor runs call_single_model once, whatever the
\* call does: nothing in call_single_model or call_models submits it again.
AfterCall(running, task, outcome) == running \ {task}

\* Mutant: the worker stores its response in the shared dict itself.
WorkerStores_Response(responses, result) ==
    DictSet(responses, result.model, result.response)

\* What call_single_model does to call_models' dict: nothing, it only returns
\* the pair (model, response).
WorkerStores(responses, result) == responses

\* Mutant: call_models returns without waiting for its futures.
FanInDone_NoWait(nfutures, ncollected) == TRUE

\* The as_completed loop ends, and the executor is left, when every submitted
\* future has been yielded.
FanInDone(nfutures, ncollected) == ncollected = nfutures

\* ------------------------------------------------------------------- state

VARIABLES
    pc,             \* where main is
    clients,        \* the registry setup_environment returned (provider names)
    round,          \* the call_models call in progress or last made
    cm_pc,          \* where call_models is: idle, submit, collect
    cm_i,           \* submit loop: index of the next item of models.items()
    futures,        \* submit loop: the providers whose call was submitted
    running,        \* worker tasks in flight: <<round, provider, model>>
    early,          \* results finished before as_completed took its snapshot
    yieldq,         \* results finished after it, in completion order
    collected,      \* how many futures the as_completed loop has handled
    responses,      \* call_models' dict
    answers,        \* main: the answer round's ResponseSet
    competitors,    \* main: list(answers.keys())
    answers_list,   \* main: list(answers.values())
    together,       \* main: the labelled answers sent to the judges
    evaluations,    \* main: the judgment round's ResponseSet
    rankings,       \* main: one ranking per evaluation
    sorted_results, \* main: (competitor id, average) ascending
    out,            \* the lines printed that matter here
    api,            \* history: what each provider's API call did this round
    invoked,        \* history: runs of call_single_model per provider this round
    order,          \* history: the model ids in the order the loop stored them
    stages          \* history: the stages main has gone through

VARIABLES
    p_pc,           \* parser specification: input, parsed
    p_shape,        \* how the evaluation text was built
    p_eval,         \* the evaluation handed to the loop body
    p_parsed,       \* what extract_json_response returned for it
    p_ranking       \* the ranking the loop body appended

VARIABLES
    a_pc,           \* aggregator specification: input, ranked, returned, failed
    a_rankings,     \* the judges' rankings handed to the aggregation
    a_average,      \* average_rankings, as items in insertion order
    a_sorted        \* sorted_results

VARIABLES
    c_pc,           \* chunker specification: built, chunked
    c_chunk_size,   \* TextChunker.chunk_size
    c_overlap_size, \* TextChunker.overlap_size
    c_call,         \* the call made: method, text, preserve_sentences
    c_chunks        \* the list of chunks it returned

VARIABLES
    v_pc,           \* VTT parser specification: idle, ready
    v_segments,     \* VTTParser.segments
    v_calls,        \* how many parse_content calls were made
    v_call,         \* the content of the last call
    v_result        \* what the last call returned or raised

VARIABLES
    d_pc,           \* display specification: input, printed
    d_competitors,  \* competitors, the model ids of the snapshot
    d_sorted,       \* sorted_results, with ids as the judges wrote them
    d_out           \* the lines printed, one per entry

VARIABLES
    o_pc,           \* Ollama service specification: idle, built
    o_session,      \* OllamaService.session: none, open, closed
    o_active,       \* whether an 'async with' block on the service is active
    o_trace         \* history: the operations so far, each with its outcome

VARIABLES
    w_pc,           \* workflow specification: idle, the node to run next, end, returned, raised
    w_chunker,      \* the summarizer's TextChunker: chunk_size, overlap_size
    w_special,      \* whether the text holds a special token the tokenizer refuses
    w_state,        \* the SummarizationState handed from node to node
    w_llm_calls,    \* history: how many prompts were sent to the LLM service
    w_result        \* the SummarizationResult summarize_text returned

VARIABLES
    e_event,        \* engineering flow specification: idle, or the trigger emitted last
    e_backend_feedbacks, \* state.backend_code_review_feedbacks
    e_frontend_feedbacks, \* state.frontend_code_review_feedbacks
    e_ran           \* history: the methods run so far, with what each emitted

flowVars ==
    <<pc, clients, round, cm_pc, cm_i, futures, running, early, yieldq, collected,
      responses, answers, competitors, answers_list, together, evaluations,
      rankings, sorted_results, out, api, invoked, order, stages>>

parseVars == <<p_pc, p_shape, p_eval, p_parsed, p_ranking>>

aggVars == <<a_pc, a_rankings, a_average, a_sorted>>

chunkVars == <<c_pc, c_chunk_size, c_overlap_size, c_call, c_chunks>>

vttVars == <<v_pc, v_segments, v_calls, v_call, v_result>>

displayVars == <<d_pc, d_competitors, d_sorted, d_out>>

ollamaVars == <<o_pc, o_session, o_active, o_trace>>

workVars == <<w_pc, w_chunker, w_special, w_state, w_llm_calls, w_result>>

engVars == <<e_event, e_backend_feedbacks, e_frontend_feedbacks, e_ran>>

pureVars == <<parseVars, aggVars, chunkVars, vttVars, displayVars, ollamaVars, workVars, engVars>>

vars == <<flowVars, pureVars>>

callVars ==
    <<round, cm_pc, cm_i, futures, running, early, yieldq, collected, responses,
      api, invoked, order>>

mainVars ==
    <<answers, competitors, answers_list, together, evaluations, rankings,
      sorted_results>>

NoShape == [kind |-> "none", pre |-> <<>>, ids |-> <<>>, post |-> <<>>]

FlowIdle ==
    /\ pc = "setup"
    /\ clients = {}
    /\ round = "none"
    /\ cm_pc = "idle"
    /\ cm_i = 0
    /\ futures = <<>>
    /\ running = {}
    /\ early = {}
    /\ yieldq = <<>>
    /\ collected = 0
    /\ responses = <<>>
    /\ answers = <<>>
    /\ competitors = <<>>
    /\ answers_list = <<>>
    /\ together = <<>>
    /\ evaluations = <<>>
    /\ rankings = <<>>
    /\ sorted_results = <<>>
    /\ out = <<>>
    /\ api = [p \in Providers |-> NotCalled]
    /\ invoked = [p \in Providers |-> 0]
    /\ order = <<>>
    /\ stages = <<"INIT">>

ParseIdle ==
    /\ p_pc = "idle"
    /\ p_shape = NoShape
    /\ p_eval = PyNone
    /\ p_parsed = NoJson
    /\ p_ranking = JArr(<<>>)

AggIdle ==
    /\ a_pc = "idle"
    /\ a_rankings = <<>>
    /\ a_average = <<>>
    /\ a_sorted = <<>>

NoCall == [method |-> "none", text |-> <<>>, preserve_sentences |-> FALSE]

ChunkIdle ==
    /\ c_pc = "idle"
    /\ c_chunk_size = 0
    /\ c_overlap_size = 0
    /\ c_call = NoCall
    /\ c_chunks = <<>>

NoContent == [kind |-> "none", captions |-> <<>>]

NoResult == [kind |-> "none", value |-> <<>>, exc |-> "none"]

VttIdle ==
    /\ v_pc = "idle"
    /\ v_segments = <<>>
    /\ v_calls = 0
    /\ v_call = NoContent
    /\ v_result = NoResult

DisplayIdle ==
    /\ d_pc = "idle"
    /\ d_competitors = <<>>
    /\ d_sorted = <<>>
    /\ d_out = <<>>

OllamaIdle ==
    /\ o_pc = "idle"
    /\ o_session = "none"
    /\ o_active = FALSE
    /\ o_trace = <<>>

WorkIdle ==
    /\ w_pc = "idle"
    /\ w_chunker = [chunk_size |-> 0, overlap_size |-> 0, preserve_sentences |-> FALSE]
    /\ w_special = FALSE
    /\ w_state = <<>>
    /\ w_llm_calls = 0
    /\ w_result = <<>>

EngIdle ==
    /\ e_event = "idle"
    /\ e_backend_feedbacks = <<>>
    /\ e_frontend_feedbacks = <<>>
    /\ e_ran = <<>>

Init == FlowIdle /\ ParseIdle /\ AggIdle /\ ChunkIdle /\ VttIdle /\ DisplayIdle /\ OllamaIdle /\ WorkIdle /\ EngIdle

\* ------------------------------------------------------------------- main

\* Mutant: the diagnostic is printed but the return is missing, and main goes
\* on with its next statement.
Fatal_FallsThrough(message) ==
    /\ pc' = (CASE pc = "setup" -> "question"
                [] pc = "question" -> "call_answers"
                [] pc = "await_answers" -> "aggregate"
                [] pc = "aggregate" -> "call_judges"
                [] pc = "await_evaluations" -> "parse"
                [] OTHER -> "print")
    /\ out' = Append(out, Line("diag", message))
    /\ stages' = Append(stages, "FAILED")

\* print a diagnostic and return: the run has failed.
Fatal(message) ==
    /\ pc' = "returned"
    /\ out' = Append(out, Line("diag", message))
    /\ stages' = Append(stages, "FAILED")

\* main, lines 267-279: build the registry; none at all is fatal.
SetupEnvironment ==
    /\ pc = "setup"
    /\ \E c \in SUBSET Providers :
        /\ clients' = c
        /\ IF c = {}
           THEN Fatal("Error: No clients were successfully initialized")
           ELSE pc' = "question" /\ UNCHANGED <<out, stages>>
    /\ UNCHANGED <<callVars, mainVars, pureVars>>

\* main, lines 301-311: ask ollama for the question.
GenerateQuestion ==
    /\ pc = "question"
    /\ \/ /\ "ollama" \notin clients
          /\ Fatal("Error: Ollama client not available")
       \/ /\ "ollama" \in clients
          /\ \/ /\ pc' = "call_answers"
                /\ stages' = Append(stages, "QUESTION_GENERATED")
                /\ out' = out
             \/ Fatal("Error generating question")
    /\ UNCHANGED <<clients, callVars, mainVars, pureVars>>

\* call_models is entered: an empty dict and an executor.
EnterCallModels(rnd) ==
    /\ round' = rnd
    /\ cm_pc' = "submit"
    /\ cm_i' = 1
    /\ futures' = <<>>
    /\ responses' = <<>>
    /\ collected' = 0
    /\ api' = [p \in Providers |-> NotCalled]
    /\ invoked' = [p \in Providers |-> 0]
    /\ order' = <<>>
    /\ UNCHANGED <<running, early, yieldq>>

\* main, line 326: the answer round is dispatched.
CallAnswers ==
    /\ pc = "call_answers"
    /\ pc' = "await_answers"
    /\ EnterCallModels("answers")
    /\ UNCHANGED <<clients, mainVars, out, stages, pureVars>>

\* main, line 392: the judgment round is dispatched.
CallJudges ==
    /\ pc = "call_judges"
    /\ pc' = "await_evaluations"
    /\ EnterCallModels("judgment")
    /\ UNCHANGED <<clients, mainVars, out, stages, pureVars>>

\* call_models, lines 198-207: one iteration of the submit loop.
Submit ==
    /\ cm_pc = "submit"
    /\ cm_i <= Len(Requested(round))
    /\ LET provider == Requested(round)[cm_i][1]
           model == Requested(round)[cm_i][2]
       IN  IF provider \in clients
           THEN /\ running' = running \cup {<<round, provider, model>>}
                /\ futures' = Append(futures, provider)
                /\ UNCHANGED <<responses, order>>
           ELSE /\ responses' = MissingClient(responses, provider, model)
                /\ order' = Append(order, model)
                /\ UNCHANGED <<running, futures>>
    /\ cm_i' = cm_i + 1
    /\ UNCHANGED <<pc, clients, round, cm_pc, early, yieldq, collected, api,
                   invoked, mainVars, out, stages, pureVars>>

\* call_models, line 209: the loop over as_completed(futures) starts; what has
\* finished by now is yielded first, in no particular order.
BeginFanIn ==
    /\ cm_pc = "submit"
    /\ cm_i > Len(Requested(round))
    /\ cm_pc' = "collect"
    /\ UNCHANGED <<pc, clients, round, cm_i, futures, running, early, yieldq,
                   collected, responses, api, invoked, order, mainVars, out,
                   stages, pureVars>>

\* A worker thread runs call_single_model to its end.
Worker ==
    \E t \in running :
        \E o \in ApiOutcomes(t[1], t[3], Len(competitors)) :
            LET result == CallSingleModel(t[2], t[3], o)
            IN  /\ invoked[t[2]] < MaxInvocations
                /\ running' = AfterCall(running, t, o)
                /\ api' = [api EXCEPT ![t[2]] = o]
                /\ invoked' = [invoked EXCEPT ![t[2]] = @ + 1]
                /\ responses' = WorkerStores(responses, result)
                /\ IF cm_pc = "submit"
                   THEN early' = early \cup {result} /\ yieldq' = yieldq
                   ELSE yieldq' = Append(yieldq, result) /\ early' = early
                /\ UNCHANGED <<pc, clients, round, cm_pc, cm_i, futures, collected,
                               order, mainVars, out, stages, pureVars>>

\* call_models, lines 209-215: the loop takes the next finished future.
Collect ==
    /\ cm_pc = "collect"
    /\ \E result \in (IF early # {} THEN early
                      ELSE IF yieldq # <<>> THEN {Head(yieldq)} ELSE {}) :
        /\ responses' = CollectResult(responses, result)
        /\ order' = IF result.raised THEN order ELSE Append(order, result.model)
        /\ IF early # {}
           THEN early' = early \ {result} /\ yieldq' = yieldq
           ELSE yieldq' = Tail(yieldq) /\ early' = early
    /\ collected' = collected + 1
    /\ UNCHANGED <<pc, clients, round, cm_pc, cm_i, futures, running, api,
                   invoked, mainVars, out, stages, pureVars>>

\* call_models returns its dict (line 221) and main checks it: lines 326-332
\* for the answers, lines 392-398 for the evaluations.
ReturnResponses ==
    /\ cm_pc = "collect"
    /\ FanInDone(Len(futures), collected)
    /\ cm_pc' = "idle"
    /\ IF round = "answers"
       THEN /\ answers' = responses
            /\ evaluations' = evaluations
            /\ IF responses = <<>>
               THEN Fatal("Error: No answers received from models")
               ELSE /\ pc' = "aggregate"
                    /\ stages' = Append(stages, "ANSWERS_COLLECTED")
                    /\ out' = out
       ELSE /\ evaluations' = responses
            /\ answers' = answers
            /\ IF responses = <<>>
               THEN Fatal("Error: No evaluations received from judging models")
               ELSE /\ pc' = "parse"
                    /\ stages' = Append(stages, "JUDGMENTS_COLLECTED")
                    /\ out' = out
    /\ UNCHANGED <<clients, round, cm_i, futures, running, early, yieldq, collected,
                   responses, api, invoked, order, competitors, answers_list,
                   together, rankings, sorted_results, pureVars>>

\* main, lines 337-350: number the competitors and label their answers; an
\* answer that is None cannot be concatenated and aborts the run.
AggregateAnswers ==
    /\ pc = "aggregate"
    /\ answers_list' = DictValues(answers)
    /\ competitors' = DictKeys(answers)
    /\ IF \E i \in 1..Len(answers) : answers[i][2].isNone
       THEN /\ Fatal("Error aggregating answers")
            /\ together' = together
       ELSE /\ together' = [i \in 1..Len(answers) |->
                               <<IdTokens(i), answers_list'[i].text>>]
            /\ pc' = "call_judges"
            /\ UNCHANGED <<out, stages>>
    /\ UNCHANGED <<clients, callVars, answers, evaluations, rankings,
                   sorted_results, pureVars>>

\* Mutant: only json.JSONDecodeError is caught, so subscripting the None that
\* extract_json_response returned raises out of the loop.
ParseStep_NarrowExcept(evaluation) ==
    [escapes |-> (evaluation.isNone \/ ExtractJsonResponse(evaluation.text).none),
     ranking |-> RankingOf(evaluation)]

\* What the loop body appends for one evaluation, and whether an exception
\* leaves the loop: `except Exception` lets none out.
ParseStep(evaluation) == [escapes |-> FALSE, ranking |-> RankingOf(evaluation)]

\* main, lines 402-416: one ranking per evaluation.
ParseEvaluations ==
    /\ pc = "parse"
    /\ LET steps == [i \in 1..Len(evaluations) |-> ParseStep(evaluations[i][2])]
       IN  IF \E i \in 1..Len(steps) : steps[i].escapes
           THEN /\ pc' = "raised"
                /\ rankings' = rankings
           ELSE /\ pc' = "average"
                /\ rankings' = [i \in 1..Len(steps) |-> steps[i].ranking]
    /\ UNCHANGED <<clients, callVars, answers, competitors, answers_list, together,
                   evaluations, sorted_results, out, stages, pureVars>>

\* Mutant: the emptiness check is missing.
NothingRanked_Never(average_rankings) == FALSE

\* `if not average_rankings`: no judge ranked anybody.
NothingRanked(average_rankings) == average_rankings = <<>>

\* main, lines 418-436 and 451-452: average the positions and sort.
ComputeAverages ==
    /\ pc = "average"
    /\ IF RankingsRaise(rankings)
       THEN /\ Fatal("Error calculating final rankings")
            /\ sorted_results' = sorted_results
       ELSE LET average_rankings ==
                    AverageRankings(ContestantRankings(rankings, Len(rankings)))
            IN  IF NothingRanked(average_rankings)
                THEN /\ Fatal("Error: No valid rankings to process")
                     /\ sorted_results' = sorted_results
                ELSE /\ sorted_results' = SortedResults(average_rankings)
                     /\ pc' = "print"
                     /\ stages' = Append(stages, "RANKED")
                     /\ out' = out
    /\ UNCHANGED <<clients, callVars, answers, competitors, answers_list, together,
                   evaluations, rankings, pureVars>>

\* main, lines 439-450: the final ranking, one line per ranked id.
PrintResults ==
    /\ pc = "print"
    /\ out' = out \o <<Line("header", "Final Rankings:")>>
                  \o [n \in 1..Len(sorted_results) |->
                         ResultLine(competitors, sorted_results, n)]
                  \o <<Line("footer", "Done!")>>
    /\ pc' = "done"
    /\ stages' = Append(stages, "DONE")
    /\ UNCHANGED <<clients, callVars, mainVars, pureVars>>

Next ==
    \/ SetupEnvironment
    \/ GenerateQuestion
    \/ CallAnswers
    \/ Submit
    \/ BeginFanIn
    \/ Worker
    \/ Collect
    \/ ReturnResponses
    \/ AggregateAnswers
    \/ CallJudges
    \/ ParseEvaluations
    \/ ComputeAverages
    \/ PrintResults

Spec == Init /\ [][Next]_vars

\* ----------------------------------------------- the parser on its own

\* Prose a judge may put around its JSON: words, blanks and stray braces, never
\* the marker {"results" itself.
ProseBefore == {<<>>, <<"Sure!", " ">>, <<"Here", " ", "{", "it", "}", " ", "is", " ">>}

ProseAfter == {<<>>, <<" ", "thanks">>, <<" ", "}", " ", "done", " ", "{">>}

RankingsUpTo(n) == UNION {[1..len -> {IdTokens(k) : k \in 1..n}] : len \in 0..n}

\* {"response": {"results": [ids...]}}: the ranking object inside a wrapper.
WrappedJson(ids) ==
    <<"{", "\"", "response", "\"", ":", " ">> \o ResultsJson(ids) \o <<"}">>

\* {"results": [ids...], "notes": {"best": "C1"}}: the ranking object with an
\* object nested in it.
NestedJson(ids) ==
    <<"{", "\"", "results", "\"", ":", " ", "[">> \o JoinIds(ids)
    \o <<"]", ",", " ", "\"", "notes", "\"", ":", " ",
         "{", "\"", "best", "\"", ":", " ", "\"", "C", "1", "\"", "}", "}">>

\* {"response": "ok", "results": [ids...]}: no "{" right before "results".
ResponseFirstJson(ids) ==
    <<"{", "\"", "response", "\"", ":", " ", "\"", "ok", "\"", ",", " ",
      "\"", "results", "\"", ":", " ", "[">> \o JoinIds(ids) \o <<"]", "}">>

JsonKinds == {"wellformed", "wrapped", "nested", "wrappednested", "responsefirst"}

\* The evaluations the parser is tried on: a ranking object (plain, wrapped,
\* with a nested object, both, or as second member) alone or inside prose,
\* prose only, an error entry of the dispatcher, and None.
Shapes ==
    {[kind |-> k, pre |-> a, ids |-> r, post |-> b] :
        k \in JsonKinds, a \in ProseBefore, r \in RankingsUpTo(MaxRanking),
        b \in ProseAfter}
    \cup {[kind |-> "prose", pre |-> a, ids |-> <<>>, post |-> b] :
        a \in ProseBefore \ {<<>>}, b \in ProseAfter}
    \cup {[kind |-> "error", pre |-> <<>>, ids |-> <<>>, post |-> <<>>],
          [kind |-> "null", pre |-> <<>>, ids |-> <<>>, post |-> <<>>]}

EvaluationOf(shape) ==
    IF shape.kind = "wellformed"
    THEN PyStr(shape.pre \o ResultsJson(shape.ids) \o shape.post)
    ELSE IF shape.kind = "wrapped"
    THEN PyStr(shape.pre \o WrappedJson(shape.ids) \o shape.post)
    ELSE IF shape.kind = "nested"
    THEN PyStr(shape.pre \o NestedJson(shape.ids) \o shape.post)
    ELSE IF shape.kind = "wrappednested"
    THEN PyStr(shape.pre \o <<"{", "\"", "response", "\"", ":", " ">>
               \o NestedJson(shape.ids) \o <<"}">> \o shape.post)
    ELSE IF shape.kind = "responsefirst"
    THEN PyStr(shape.pre \o ResponseFirstJson(shape.ids) \o shape.post)
    ELSE IF shape.kind = "prose" THEN PyStr(shape.pre \o shape.post)
    ELSE IF shape.kind = "error" THEN NoClientError("bedrock")
    ELSE PyNone

ParseInit ==
    /\ FlowIdle
    /\ AggIdle
    /\ ChunkIdle
    /\ VttIdle
    /\ DisplayIdle
    /\ OllamaIdle
    /\ WorkIdle
    /\ EngIdle
    /\ p_pc = "input"
    /\ p_shape \in Shapes
    /\ p_eval = EvaluationOf(p_shape)
    /\ p_parsed = NoJson
    /\ p_ranking = JArr(<<>>)

\* main, lines 404-414: the loop body on one evaluation.
ParseOne ==
    /\ p_pc = "input"
    /\ p_pc' = IF ParseStep(p_eval).escapes THEN "raised" ELSE "parsed"
    /\ p_parsed' = IF p_eval.isNone THEN NoJson ELSE ExtractJsonResponse(p_eval.text)
    /\ p_ranking' = ParseStep(p_eval).ranking
    /\ UNCHANGED <<p_shape, p_eval, flowVars, aggVars, chunkVars, vttVars, displayVars, ollamaVars, workVars, engVars>>

ParseNext == ParseOne

ParseSpec == ParseInit /\ [][ParseNext]_vars

\* ------------------------------------------------- the aggregator on its own

\* The rankings a judge may give: up to MaxRanking of the ids C1.., each id at
\* most once.
AggRankings ==
    {JArr([i \in 1..Len(r) |-> JStr(r[i])]) :
        r \in {q \in RankingsUpTo(MaxRanking) :
                  \A i, j \in 1..Len(q) : q[i] = q[j] => i = j}}

\* Three judges ranking C1, C2, C3 as [C1,C2,C3], [C2,C1,C3], [C1,C3,C2].
WorkedExample ==
    << JArr(<<JStr(IdTokens(1)), JStr(IdTokens(2)), JStr(IdTokens(3))>>),
       JArr(<<JStr(IdTokens(2)), JStr(IdTokens(1)), JStr(IdTokens(3))>>),
       JArr(<<JStr(IdTokens(1)), JStr(IdTokens(3)), JStr(IdTokens(2))>>) >>

AggInit ==
    /\ FlowIdle
    /\ ParseIdle
    /\ ChunkIdle
    /\ VttIdle
    /\ DisplayIdle
    /\ OllamaIdle
    /\ WorkIdle
    /\ EngIdle
    /\ a_pc = "input"
    /\ a_rankings \in UNION {[1..j -> AggRankings] : j \in 0..MaxAggJudges}
                      \cup {WorkedExample}
    /\ a_average = <<>>
    /\ a_sorted = <<>>

\* main, lines 418-436: positions per contestant, their averages, the sort.
AggregateRankings ==
    /\ a_pc = "input"
    /\ IF RankingsRaise(a_rankings)
       THEN /\ a_pc' = "failed"
            /\ a_average' = a_average
            /\ a_sorted' = a_sorted
       ELSE LET average_rankings ==
                    AverageRankings(ContestantRankings(a_rankings, Len(a_rankings)))
            IN  /\ a_average' = average_rankings
                /\ IF NothingRanked(average_rankings)
                   THEN a_pc' = "returned" /\ a_sorted' = a_sorted
                   ELSE a_pc' = "ranked" /\ a_sorted' = SortedResults(average_rankings)
    /\ UNCHANGED <<a_rankings, flowVars, parseVars, chunkVars, vttVars, displayVars, ollamaVars, workVars, engVars>>

AggNext == AggregateRankings

AggSpec == AggInit /\ [][AggNext]_vars

\* ------------------------------------------------------ transcript chunker

\* A text is a sequence of characters: "w" (a letter), " " and ".".
\* The number of consecutive characters equal to ch from index i on.
RECURSIVE RunLen(_, _, _)
RunLen(text, i, ch) ==
    IF i > Len(text) \/ text[i] # ch THEN 0 ELSE 1 + RunLen(text, i + 1, ch)

\* str.strip(): the text without its leading and trailing blanks.
StripText(text) == Strip(text, {" "})

RECURSIVE SplitWords(_)
\* str.split(): the maximal runs of non-blank characters.
SplitWords(text) ==
    LET t == StripText(text)
        blanks == {i \in 1..Len(t) : t[i] = " "}
    IN  IF t = <<>> THEN <<>>
        ELSE IF blanks = {} THEN <<t>>
        ELSE <<SubSeq(t, 1, SeqMin(blanks) - 1)>>
             \o SplitWords(SubSeq(t, SeqMin(blanks), Len(t)))

RECURSIVE JoinWords(_)
\* ' '.join(words)
JoinWords(words) ==
    IF words = <<>> THEN <<>>
    ELSE IF Len(words) = 1 THEN words[1]
    ELSE words[1] \o <<" ">> \o JoinWords(Tail(words))

\* The length of the piece the tokenizer's pattern cuts at index i: a letter
\* run with at most one non-letter before it, a run of "." with at most one
\* blank before it, or blanks (all but the last one when a non-blank follows).
PieceLen(text, i) ==
    LET next == IF i < Len(text) THEN text[i + 1] ELSE "end"
    IN  IF text[i] = "w" THEN RunLen(text, i, "w")
        ELSE IF next = "w" THEN 1 + RunLen(text, i + 1, "w")
        ELSE IF text[i] = "." THEN RunLen(text, i, ".")
        ELSE IF next = "." THEN 1 + RunLen(text, i + 1, ".")
        ELSE IF i + RunLen(text, i, " ") > Len(text) THEN RunLen(text, i, " ")
        ELSE RunLen(text, i, " ") - 1

RECURSIVE Encode(_)
\* tokenizer.encode(text): one token per piece.
Encode(text) ==
    IF text = <<>> THEN <<>>
    ELSE <<SubSeq(text, 1, PieceLen(text, 1))>>
         \o Encode(SubSeq(text, PieceLen(text, 1) + 1, Len(text)))

RECURSIVE Decode(_)
\* tokenizer.decode(tokens): the tokens' characters in order.
Decode(tokens) == IF tokens = <<>> THEN <<>> ELSE Head(tokens) \o Decode(Tail(tokens))

\* Mutant: the slice takes one token more, tokens[a:b+1].
Slice_Inclusive(seq, a, b) ==
    LET e == IF b + 1 > Len(seq) THEN Len(seq) ELSE b + 1
    IN  IF a >= e THEN <<>> ELSE SubSeq(seq, a + 1, e)

\* tokens[a:b] for 0 <= a and any b, as Python slices (b < 0 counts from the end).
Slice(seq, a, b) ==
    LET e == IF b < 0 THEN Len(seq) + b ELSE IF b > Len(seq) THEN Len(seq) ELSE b
    IN  IF a >= e THEN <<>> ELSE SubSeq(seq, a + 1, e)

\* _adjust_chunk_boundary: cut after the last "." that is not the last
\* character (and the blanks after it); failing that drop the last word.
AdjustChunkBoundary(text) ==
    LET ends == {i \in 1..(Len(text) - 1) : text[i] = "."}
        last == CHOOSE i \in ends : \A j \in ends : j <= i
        words == SplitWords(text)
    IN  IF ends # {} THEN SubSeq(text, 1, last + RunLen(text, last + 1, " "))
        ELSE IF Len(words) > 1 THEN JoinWords(SubSeq(words, 1, Len(words) - 1))
        ELSE text

\* _get_char_index: the token index scaled by characters per token.
GetCharIndex(full_text, token_index, all_tokens) ==
    IF token_index >= Len(all_tokens) THEN Len(full_text)
    ELSE (token_index * Len(full_text)) \div Len(all_tokens)

\* _get_overlap_text: the last overlap_size tokens of the text; tokens[-0:] is
\* the whole list.
GetOverlapText(text, overlap_size) ==
    LET tokens == Encode(text)
    IN  IF Len(tokens) <= overlap_size THEN text
        ELSE IF overlap_size = 0 THEN Decode(tokens)
        ELSE Decode(SubSeq(tokens, Len(tokens) - overlap_size + 1, Len(tokens)))

\* A TextChunk; start_token and end_token record the loop's token range.
TextChunk(content, start_index, end_index, token_count, chunk_id, start_token, end_token) ==
    [content |-> content, start_index |-> start_index, end_index |-> end_index,
     token_count |-> token_count, chunk_id |-> chunk_id,
     start_token |-> start_token, end_token |-> end_token]

RECURSIVE ChunkTextLoop(_, _, _, _, _, _)
\* chunk_text, lines 67-98: the chunks from start_token on.  c is the chunker:
\* its chunk_size and overlap_size, and preserve_sentences of the call.
ChunkTextLoop(text, tokens, c, start_token, chunk_id, total_tokens) ==
    IF start_token >= total_tokens THEN <<>>
    ELSE LET window == IF start_token + c.chunk_size < total_tokens
                       THEN start_token + c.chunk_size ELSE total_tokens
             adjust == c.preserve_sentences /\ window < total_tokens
             chunk_text == IF adjust
                           THEN AdjustChunkBoundary(Decode(Slice(tokens, start_token, window)))
                           ELSE Decode(Slice(tokens, start_token, window))
             chunk_tokens == IF adjust THEN Encode(chunk_text)
                             ELSE Slice(tokens, start_token, window)
             end_token == IF adjust THEN start_token + Len(chunk_tokens) ELSE window
             chunk == TextChunk(chunk_text,
                                GetCharIndex(text, start_token, tokens),
                                GetCharIndex(text, end_token, tokens),
                                Len(chunk_tokens), chunk_id, start_token, end_token)
             next == IF end_token - c.overlap_size > start_token + 1
                     THEN end_token - c.overlap_size ELSE start_token + 1
         IN  IF next >= end_token THEN <<chunk>>
             ELSE <<chunk>> \o ChunkTextLoop(text, tokens, c, next, chunk_id + 1,
                                             total_tokens)

\* Mutant: the single chunk of a short text holds text.strip(), not text.
ChunkTextOp_Stripped(text, c) ==
    LET tokens == Encode(text)
    IN  IF StripText(text) = <<>> THEN <<>>
        ELSE IF Len(tokens) <= c.chunk_size
        THEN <<TextChunk(StripText(text), 0, Len(text), Len(tokens), 0, 0, Len(tokens))>>
        ELSE ChunkTextLoop(text, tokens, c, 0, 0, Len(tokens))

\* TextChunker.chunk_text
ChunkTextOp(text, c) ==
    LET tokens == Encode(text)
    IN  IF StripText(text) = <<>> THEN <<>>
        ELSE IF Len(tokens) <= c.chunk_size
        THEN <<TextChunk(text, 0, Len(text), Len(tokens), 0, 0, Len(tokens))>>
        ELSE ChunkTextLoop(text, tokens, c, 0, 0, Len(tokens))

RECURSIVE SplitSentences(_)
\* re.split(r'[.!?]+\s+', text): the parts between runs of "." followed by
\* blanks.
SplitSentences(text) ==
    LET at == {i \in 1..Len(text) :
                  /\ text[i] = "."
                  /\ i + RunLen(text, i, ".") <= Len(text)
                  /\ text[i + RunLen(text, i, ".")] = " "}
        i == SeqMin(at)
        dots == RunLen(text, i, ".")
        after == i + dots + RunLen(text, i + dots, " ")
    IN  IF at = {} THEN <<text>>
        ELSE <<SubSeq(text, 1, i - 1)>> \o SplitSentences(SubSeq(text, after, Len(text)))

RECURSIVE SentenceLoop(_, _, _, _)
\* chunk_by_sentences, lines 124-165: the loop from the k-th sentence on, then
\* the last chunk.  st holds chunks, current_chunk, current_tokens, chunk_id
\* and start_index.
SentenceLoop(sentences, k, st, c) ==
    LET sentence == StripText(sentences[k])
        sentence_tokens == Len(Encode(sentence))
        chunk == TextChunk(StripText(st.current_chunk), st.start_index,
                           st.start_index + Len(st.current_chunk),
                           st.current_tokens, st.chunk_id, 0, 0)
        overlap_text == GetOverlapText(st.current_chunk, c.overlap_size)
        restarted == overlap_text \o <<" ">> \o sentence
        extended == IF st.current_chunk # <<>>
                    THEN st.current_chunk \o <<" ">> \o sentence ELSE sentence
    IN  IF k > Len(sentences)
        THEN IF StripText(st.current_chunk) # <<>>
             THEN Append(st.chunks, chunk) ELSE st.chunks
        ELSE IF sentence = <<>> THEN SentenceLoop(sentences, k + 1, st, c)
        ELSE IF st.current_tokens + sentence_tokens > c.chunk_size
                /\ st.current_chunk # <<>>
        THEN SentenceLoop(sentences, k + 1,
                 [chunks |-> Append(st.chunks, chunk),
                  current_chunk |-> restarted,
                  current_tokens |-> Len(Encode(restarted)),
                  chunk_id |-> st.chunk_id + 1,
                  start_index |-> st.start_index + Len(chunk.content)
                                  - Len(overlap_text)], c)
        ELSE SentenceLoop(sentences, k + 1,
                 [st EXCEPT !.current_chunk = extended,
                            !.current_tokens = Len(Encode(extended))], c)

\* TextChunker.chunk_by_sentences
ChunkBySentencesOp(text, c) ==
    SentenceLoop(SplitSentences(text), 1,
                 [chunks |-> <<>>, current_chunk |-> <<>>, current_tokens |-> 0,
                  chunk_id |-> 0, start_index |-> 0], c)

\* The texts handed to the chunker.
Texts == UNION {[1..n -> {"w", " ", "."}] : n \in 0..MaxTextLen}

\* TextChunker.__init__: a chunker built with some chunk_size and overlap_size.
ChunkInit ==
    /\ FlowIdle
    /\ ParseIdle
    /\ AggIdle
    /\ VttIdle
    /\ DisplayIdle
    /\ OllamaIdle
    /\ WorkIdle
    /\ EngIdle
    /\ c_pc = "built"
    /\ c_chunk_size \in 1..MaxChunkSize
    /\ c_overlap_size \in 0..MaxOverlap
    /\ c_call = NoCall
    /\ c_chunks = <<>>

\* The chunker as the loops see it, for one call.
Chunker(preserve_sentences) ==
    [chunk_size |-> c_chunk_size, overlap_size |-> c_overlap_size,
     preserve_sentences |-> preserve_sentences]

\* A call of chunk_text(text, preserve_sentences).
ChunkText ==
    /\ c_pc = "built"
    /\ \E text \in Texts, preserve_sentences \in BOOLEAN :
          /\ c_call' = [method |-> "chunk_text", text |-> text,
                        preserve_sentences |-> preserve_sentences]
          /\ c_chunks' = ChunkTextOp(text, Chunker(preserve_sentences))
    /\ c_pc' = "chunked"
    /\ UNCHANGED <<c_chunk_size, c_overlap_size, flowVars, parseVars, aggVars, vttVars, displayVars, ollamaVars, workVars, engVars>>

\* A call of chunk_by_sentences(text).
ChunkBySentences ==
    /\ c_pc = "built"
    /\ \E text \in Texts :
          /\ c_call' = [method |-> "chunk_by_sentences", text |-> text,
                        preserve_sentences |-> FALSE]
          /\ c_chunks' = ChunkBySentencesOp(text, Chunker(FALSE))
    /\ c_pc' = "chunked"
    /\ UNCHANGED <<c_chunk_size, c_overlap_size, flowVars, parseVars, aggVars, vttVars, displayVars, ollamaVars, workVars, engVars>>

ChunkNext == ChunkText \/ ChunkBySentences

ChunkSpec == ChunkInit /\ [][ChunkNext]_vars

\* ---------------------------------------------------------------- VTTParser
\*
\* A WebVTT content is modelled by what webvtt.read makes of it: the captions
\* it holds when it is well formed, and otherwise the reason it cannot be
\* read.  A caption text is a sequence of characters.

\* A call that returned v, and a call that raised an exception of type e.
Returned(v) == [kind |-> "returned", value |-> v, exc |-> "none"]

Raised(e) == [kind |-> "raised", value |-> <<>>, exc |-> e]

\* The raw caption texts: plain, tagged with runs of blanks, and a lone tag.
CaptionTexts ==
    { <<"a">>,
      <<"<", "i", ">", "a", "<", "/", "i", ">", " ", " ", "b">>,
      <<" ", "b", " ">>,
      <<"<", "b", ">">> }

\* The captions of a file: the i-th one runs from second i-1 to second i.
Captions(texts) ==
    [i \in 1..Len(texts) |-> [start |-> i - 1, end |-> i, text |-> texts[i]]]

\* The contents handed to parse_content.
VttContents ==
    {[kind |-> k, captions |-> <<>>] :
        k \in {"empty", "blank", "nosignature", "badcue", "unencodable"}}
    \cup {[kind |-> "vtt", captions |-> Captions(texts)] :
            texts \in UNION {[1..n -> CaptionTexts] : n \in 0..MaxCaptions}}

\* webvtt.read on the temporary file.
WebvttRead(content) ==
    IF content.kind = "vtt" THEN Returned(content.captions)
    ELSE IF content.kind = "nosignature" THEN Raised("MalformedFileError")
    ELSE Raised("MalformedCaptionError")

\* The exception types that are subclasses of Exception.
ExceptionTypes ==
    {"MalformedFileError", "MalformedCaptionError", "UnicodeEncodeError",
     "ValueError"}

\* except Exception as e: raise ValueError(...)
RaiseValueError(r) ==
    IF r.kind = "raised" /\ r.exc \in ExceptionTypes THEN Raised("ValueError")
    ELSE r

RECURSIVE RemoveTags(_)
\* re.sub(r'<[^>]+>', '', text)
RemoveTags(text) ==
    IF text = <<>> THEN <<>>
    ELSE LET close == {j \in 3..Len(text) :
                        /\ text[j] = ">"
                        /\ \A k \in 2..(j - 1) : text[k] # ">"}
         IN  IF text[1] = "<" /\ close # {}
             THEN RemoveTags(SubSeq(text, (CHOOSE j \in close : TRUE) + 1, Len(text)))
             ELSE <<text[1]>> \o RemoveTags(Tail(text))

\* VTTParser._clean_text
CleanText(text) == StripText(JoinWords(SplitWords(RemoveTags(text))))

RECURSIVE SegmentsOf(_)
\* parse_file, lines 31-42: a segment for every caption with a non-blank text.
SegmentsOf(captions) ==
    IF captions = <<>> THEN <<>>
    ELSE LET caption == Head(captions)
             clean_text == CleanText(caption.text)
         IN  (IF StripText(clean_text) # <<>>
              THEN <<[start_time |-> caption.start, end_time |-> caption.end,
                      text |-> clean_text]>>
              ELSE <<>>)
             \o SegmentsOf(Tail(captions))

\* Mutant: parse_file empties self.segments before it reads the file.
ParseFile_ClearsFirst(content, segments) ==
    LET vtt == WebvttRead(content)
    IN  IF vtt.kind = "raised"
        THEN [result |-> RaiseValueError(vtt), segments |-> <<>>]
        ELSE [result |-> Returned(SegmentsOf(vtt.value)),
              segments |-> SegmentsOf(vtt.value)]

\* VTTParser.parse_file on the temporary file: what it returns or raises, and
\* self.segments afterwards.
ParseFile(content, segments) ==
    LET vtt == WebvttRead(content)
    IN  IF vtt.kind = "raised"
        THEN [result |-> RaiseValueError(vtt), segments |-> segments]
        ELSE [result |-> Returned(SegmentsOf(vtt.value)),
              segments |-> SegmentsOf(vtt.value)]

\* VTTParser.parse_content: what it returns or raises, and self.segments
\* afterwards.
ParseContentOp(content, segments) ==
    IF content.kind \in {"empty", "blank"}
    THEN [result |-> Returned(<<>>), segments |-> segments]
    ELSE IF content.kind = "unencodable"
    THEN [result |-> RaiseValueError(Raised("UnicodeEncodeError")),
          segments |-> segments]
    ELSE LET parsed == ParseFile(content, segments)
         IN  [result |-> RaiseValueError(parsed.result),
              segments |-> parsed.segments]

\* VTTParser.get_full_transcript: " ".join of the stored segments' texts.
GetFullTranscript(segments) ==
    JoinWords([i \in 1..Len(segments) |-> segments[i].text])

\* VTTParser.__init__
VttInit ==
    /\ FlowIdle
    /\ ParseIdle
    /\ AggIdle
    /\ ChunkIdle
    /\ DisplayIdle
    /\ OllamaIdle
    /\ WorkIdle
    /\ EngIdle
    /\ v_pc = "ready"
    /\ v_segments = <<>>
    /\ v_calls = 0
    /\ v_call = NoContent
    /\ v_result = NoResult

\* A call of parse_content(vtt_content).
ParseContent ==
    /\ v_pc = "ready"
    /\ v_calls < MaxParseCalls
    /\ \E content \in VttContents :
          /\ v_call' = content
          /\ v_result' = ParseContentOp(content, v_segments).result
          /\ v_segments' = ParseContentOp(content, v_segments).segments
    /\ v_calls' = v_calls + 1
    /\ UNCHANGED <<v_pc, flowVars, parseVars, aggVars, chunkVars, displayVars, ollamaVars, workVars, engVars>>

VttNext == ParseContent

VttSpec == VttInit /\ [][VttNext]_vars

\* ------------------------------------------- the final display on its own

\* The ids a judge may write when there are n competitors: C0 .. C(n+1), and
\* ids that are not of the form Ck.
JudgeIds(n) ==
    {IdTokens(k) : k \in 0..(n + 1)}
    \cup {<<"c", "1">>, <<"1">>, <<"C", "-", "1">>, <<"C", "x">>}

\* sorted_results over these ids: distinct ids, averages ascending.
SortedOver(ids) ==
    UNION {{[i \in 1..len |-> <<f[i], Average(<<i>>)>>] :
              f \in {g \in [1..len -> ids] :
                        \A i, j \in 1..len : i # j => g[i] # g[j]}} :
           len \in 1..MaxShown}

DisplayInit ==
    /\ FlowIdle
    /\ ParseIdle
    /\ AggIdle
    /\ ChunkIdle
    /\ VttIdle
    /\ OllamaIdle
    /\ WorkIdle
    /\ EngIdle
    /\ d_pc = "input"
    /\ \E n \in 1..MaxAnswerModels :
          /\ d_competitors = [i \in 1..n |-> ModelsDict[i][2]]
          /\ d_sorted \in SortedOver(JudgeIds(n))
    /\ d_out = <<>>

\* main, lines 441-447: the loop that prints one line per entry.
PrintFinalRankings ==
    /\ d_pc = "input"
    /\ d_out' = [n \in 1..Len(d_sorted) |-> ResultLine(d_competitors, d_sorted, n)]
    /\ d_pc' = "printed"
    /\ UNCHANGED <<d_competitors, d_sorted, flowVars, parseVars, aggVars, chunkVars, vttVars, ollamaVars, workVars, engVars>>

DisplayNext == PrintFinalRankings

DisplaySpec == DisplayInit /\ [][DisplayNext]_vars

\* ------------------------------------------------------------ OllamaService
\*
\* self.session is None, an open aiohttp ClientSession or a closed one.  A
\* ClientSession object is truthy whether open or closed; a request on a
\* closed one raises RuntimeError("Session is closed").

\* OllamaService.__aenter__: a new session is stored.
AEnter(session) == "open"

\* OllamaService.__aexit__: the session, if there is one, is closed;
\* self.session is not assigned.
AExit(session) == IF session = "open" THEN "closed" ELSE session

\* OllamaService.generate_async: the response, or the message of the Exception
\* raised.  http is what the server does with a request that is sent.
GenerateAsync(session, http) ==
    IF session = "none" THEN "Session not initialized"
    ELSE IF session = "closed" THEN "Error : Session is closed"
    ELSE IF http = "ok" THEN "response"
    ELSE "Error communicating with Ollama"

\* OllamaService.generate_multiple_async: the list of responses, or the
\* message of the first Exception asyncio.gather lets out.
GenerateMultipleAsync(session, https) ==
    LET results == [i \in 1..Len(https) |-> GenerateAsync(session, https[i])]
        failed == {i \in 1..Len(https) : results[i] # "response"}
    IN  IF session = "none" THEN "Session not initialized"
        ELSE IF failed # {} THEN results[SeqMin(failed)]
        ELSE "responses"

\* One entry of the history.
Did(op, outcome) == [op |-> op, inside |-> o_active, outcome |-> outcome]

\* OllamaService.__init__
OllamaInit ==
    /\ FlowIdle
    /\ ParseIdle
    /\ AggIdle
    /\ ChunkIdle
    /\ VttIdle
    /\ DisplayIdle
    /\ WorkIdle
    /\ EngIdle
    /\ o_pc = "built"
    /\ o_session = "none"
    /\ o_active = FALSE
    /\ o_trace = <<>>

\* 'async with service:' is entered.
EnterBlock ==
    /\ o_pc = "built"
    /\ Len(o_trace) < MaxOllamaOps
    /\ ~o_active
    /\ o_session' = AEnter(o_session)
    /\ o_active' = TRUE
    /\ o_trace' = Append(o_trace, Did("enter", "entered"))
    /\ UNCHANGED <<o_pc, flowVars, parseVars, aggVars, chunkVars, vttVars, displayVars, workVars, engVars>>

\* The block is left.
ExitBlock ==
    /\ o_pc = "built"
    /\ Len(o_trace) < MaxOllamaOps
    /\ o_active
    /\ o_session' = AExit(o_session)
    /\ o_active' = FALSE
    /\ o_trace' = Append(o_trace, Did("exit", "exited"))
    /\ UNCHANGED <<o_pc, flowVars, parseVars, aggVars, chunkVars, vttVars, displayVars, workVars, engVars>>

\* A call of generate_async.
CallGenerateAsync ==
    /\ o_pc = "built"
    /\ Len(o_trace) < MaxOllamaOps
    /\ \E http \in {"ok", "refused"} :
          o_trace' = Append(o_trace,
                            Did("generate_async", GenerateAsync(o_session, http)))
    /\ UNCHANGED <<o_pc, o_session, o_active, flowVars, parseVars, aggVars, chunkVars, vttVars, displayVars, workVars, engVars>>

\* A call of generate_multiple_async.
CallGenerateMultipleAsync ==
    /\ o_pc = "built"
    /\ Len(o_trace) < MaxOllamaOps
    /\ \E https \in UNION {[1..n -> {"ok", "refused"}] : n \in 0..MaxPrompts} :
          o_trace' = Append(o_trace,
                            Did("generate_multiple_async",
                                GenerateMultipleAsync(o_session, https)))
    /\ UNCHANGED <<o_pc, o_session, o_active, flowVars, parseVars, aggVars, chunkVars, vttVars, displayVars, workVars, engVars>>

OllamaNext ==
    \/ EnterBlock
    \/ ExitBlock
    \/ CallGenerateAsync
    \/ CallGenerateMultipleAsync

OllamaSpec == OllamaInit /\ [][OllamaNext]_vars

\* ------------------------------------------------ the summarization workflow
\*
\* A value that may be None is a record; every value held is a sequence: a
\* str as tokens, a list, a dict as its items.

Some(v) == [isNone |-> FALSE, val |-> v]

Nothing == [isNone |-> TRUE, val |-> <<>>]

\* bool(v): None, "", [] and {} are falsy.
Truthy(v) == ~v.isNone /\ v.val # <<>>

\* The texts handed to summarize_text.
WorkflowTexts ==
    { <<>>,
      <<" ", " ">>,
      <<"w">>,
      <<"w", ".", " ", "w">>,
      <<"w", " ", "w", ".", " ", "w", ".", " ", "w">>,
      <<"w", " ", "w", " ", "w">> }

\* summarize_text, lines 456-464: the initial state.
InitialState(text) ==
    [original_text |-> text, chunks |-> Nothing, chunk_summaries |-> Nothing,
     final_summary |-> <<>>, processing_stats |-> Nothing, error |-> Nothing,
     debug_config |-> Nothing]

\* What a node does: the state it returns, whether an exception leaves it, and
\* how many prompts it sent to the LLM service.
NodeReturns(state, prompts) == [raised |-> FALSE, state |-> state, prompts |-> prompts]

NodeRaises(state) == [raised |-> TRUE, state |-> state, prompts |-> 0]

\* The first statements of chunk_text, summarize_chunks and
\* create_final_summary: state.get("debug_config", {}) is None when the key
\* holds None, and None.get(...) in the log line raises AttributeError.
DebugLogRaises(state) == state.debug_config.isNone

\* parse_input
ParseInputNode(state) ==
    IF StripText(state.original_text) = <<>>
    THEN NodeReturns([state EXCEPT !.error = Some(<<"Empty input text">>)], 0)
    ELSE NodeReturns(
            [state EXCEPT
                !.processing_stats =
                    Some(<< <<"original_length", Len(state.original_text)>> >>),
                !.debug_config = Some(<<"config">>)], 0)

\* chunk_text
ChunkTextNode(state, chunker, special) ==
    IF DebugLogRaises(state) THEN NodeRaises(state)
    ELSE IF Truthy(state.error) THEN NodeReturns(state, 0)
    ELSE IF special
    THEN NodeReturns([state EXCEPT !.error = Some(<<"Error chunking text: ">>)], 0)
    ELSE LET chunks == ChunkBySentencesOp(state.original_text, chunker)
             stats == DictSet(state.processing_stats.val, "chunks_created", Len(chunks))
         IN  NodeReturns(
                [state EXCEPT
                    !.chunks = Some(chunks),
                    !.processing_stats =
                        Some(IF Len(chunks) = 1 THEN DictSet(stats, "single_chunk", 1)
                             ELSE stats)], 0)

\* summarize_chunks; llm is what the LLM service does with the prompts.
SummarizeChunksNode(state, llm) ==
    IF DebugLogRaises(state) THEN NodeRaises(state)
    ELSE IF Truthy(state.error) \/ ~Truthy(state.chunks) THEN NodeReturns(state, 0)
    ELSE LET chunks == state.chunks.val
         IN  IF Len(chunks) = 1
             THEN NodeReturns([state EXCEPT !.chunk_summaries = Some(<<chunks[1].content>>)], 0)
             ELSE IF llm = "fail"
             THEN NodeReturns([state EXCEPT !.error = Some(<<"Error summarizing chunks: ">>)],
                              Len(chunks))
             ELSE NodeReturns(
                    [state EXCEPT
                        !.chunk_summaries = Some([i \in 1..Len(chunks) |-> <<"summary">>]),
                        !.processing_stats =
                            Some(DictSet(state.processing_stats.val, "chunks_summarized",
                                         Len(chunks)))],
                    Len(chunks))

\* create_final_summary; llm is what generate_sync does: it fails, or answers
\* with a summary or with blanks only.
CreateFinalSummaryNode(state, llm) ==
    IF DebugLogRaises(state) THEN NodeRaises(state)
    ELSE IF Truthy(state.error) \/ ~Truthy(state.chunk_summaries) THEN NodeReturns(state, 0)
    ELSE IF llm = "fail"
    THEN NodeReturns([state EXCEPT !.error = Some(<<"Error creating final summary: ">>)], 1)
    ELSE LET final_summary == IF llm = "ok" THEN <<"summary">> ELSE <<>>
         IN  NodeReturns(
                [state EXCEPT
                    !.final_summary = final_summary,
                    !.processing_stats =
                        Some(DictSet(state.processing_stats.val, "final_summary_length",
                                     Len(final_summary)))], 1)

\* summarize_text, lines 472-497: the result built from the final state.
SummarizationResult(state) ==
    IF Truthy(state.error)
    THEN [summary |-> <<>>, chunks_processed |-> 0, error |-> state.error]
    ELSE [summary |-> state.final_summary,
          chunks_processed |->
              IF ~state.processing_stats.isNone
                 /\ DictHas(state.processing_stats.val, "chunks_summarized")
              THEN DictGet(state.processing_stats.val, "chunks_summarized") ELSE 0,
          error |-> Nothing]

\* summarize_text is called on a summarizer whose chunker was built from the
\* configuration.
WorkInit ==
    /\ FlowIdle
    /\ ParseIdle
    /\ AggIdle
    /\ ChunkIdle
    /\ VttIdle
    /\ DisplayIdle
    /\ OllamaIdle
    /\ EngIdle
    /\ w_pc = "parse_input"
    /\ \E chunk_size \in 1..MaxChunkSize, overlap_size \in 0..MaxOverlap :
          w_chunker = [chunk_size |-> chunk_size, overlap_size |-> overlap_size,
                       preserve_sentences |-> FALSE]
    /\ \E text \in WorkflowTexts :
          /\ w_state = InitialState(text)
          /\ w_special \in (IF StripText(text) = <<>> THEN {FALSE} ELSE BOOLEAN)
    /\ w_llm_calls = 0
    /\ w_result = <<>>

\* The workflow runs the node `from`, then goes on to `to`, unless the node
\* raises: then ainvoke, and summarize_text with it, raises.
RunNode(from, to, did) ==
    /\ w_pc = from
    /\ w_pc' = IF did.raised THEN "raised" ELSE to
    /\ w_state' = did.state
    /\ w_llm_calls' = w_llm_calls + did.prompts
    /\ UNCHANGED <<w_chunker, w_special, w_result, flowVars, parseVars, aggVars, chunkVars, vttVars, displayVars, ollamaVars, engVars>>

RunParseInput == RunNode("parse_input", "chunk_text", ParseInputNode(w_state))

RunChunkText ==
    RunNode("chunk_text", "summarize_chunks", ChunkTextNode(w_state, w_chunker, w_special))

RunSummarizeChunks ==
    \E llm \in {"ok", "fail"} :
        RunNode("summarize_chunks", "create_final_summary", SummarizeChunksNode(w_state, llm))

RunCreateFinalSummary ==
    \E llm \in {"ok", "blank", "fail"} :
        RunNode("create_final_summary", "end", CreateFinalSummaryNode(w_state, llm))

\* summarize_text returns its result.
ReturnResult ==
    /\ w_pc = "end"
    /\ w_pc' = "returned"
    /\ w_result' = SummarizationResult(w_state)
    /\ UNCHANGED <<w_chunker, w_special, w_state, w_llm_calls, flowVars, parseVars, aggVars, chunkVars, vttVars, displayVars, ollamaVars, engVars>>

WorkNext ==
    \/ RunParseInput
    \/ RunChunkText
    \/ RunSummarizeChunks
    \/ RunCreateFinalSummary
    \/ ReturnResult

WorkSpec == WorkInit /\ [][WorkNext]_vars

\* ----------------------------------------------------------- EngineeringFlow
\*
\* A method of the flow runs when the trigger it listens to is emitted: the
\* name of a method that finished, or the string a router returned.

MAX_REVIEW_ITERATIONS == 3

\* The CodeReviewFeedback a review crew may produce.
Feedbacks ==
    [passed_review : BOOLEAN, review_comments_markdown : {"", "comments"}]

\* Mutant: the router has no iteration limit.
ReviewCode_NoLimit(feedbacks, feedback, reviewed, rewrite) ==
    [crew |-> TRUE, feedbacks |-> Append(feedbacks, feedback),
     out |-> IF feedback.passed_review THEN reviewed ELSE rewrite]

\* Mutant: a review that failed is reported as passed.
ReviewCode_AlwaysReviewed(feedbacks, feedback, reviewed, rewrite) ==
    IF Len(feedbacks) >= MAX_REVIEW_ITERATIONS
    THEN [crew |-> FALSE, feedbacks |-> feedbacks, out |-> "MAX_REVIEW_ITERATIONS_EXCEEDED"]
    ELSE [crew |-> TRUE, feedbacks |-> Append(feedbacks, feedback), out |-> reviewed]

\* review_backend_code and review_frontend_code, which differ in the list and
\* in the strings returned: whether the review crew ran, the list afterwards,
\* and the string the router returns.  feedback is what the crew produces.
ReviewCode(feedbacks, feedback, reviewed, rewrite) ==
    IF Len(feedbacks) >= MAX_REVIEW_ITERATIONS
    THEN [crew |-> FALSE, feedbacks |-> feedbacks, out |-> "MAX_REVIEW_ITERATIONS_EXCEEDED"]
    ELSE [crew |-> TRUE, feedbacks |-> Append(feedbacks, feedback),
          out |-> IF feedback.passed_review THEN reviewed ELSE rewrite]

\* One entry of the history.
Ran(method, crew, emitted) == [method |-> method, crew |-> crew, out |-> emitted]

\* EngineeringFlow().kickoff()
EngInit ==
    /\ FlowIdle
    /\ ParseIdle
    /\ AggIdle
    /\ ChunkIdle
    /\ VttIdle
    /\ DisplayIdle
    /\ OllamaIdle
    /\ WorkIdle
    /\ e_event = "kickoff"
    /\ e_backend_feedbacks = <<>>
    /\ e_frontend_feedbacks = <<>>
    /\ e_ran = <<>>

\* A method that is not a router runs on one of its triggers; what it emits is
\* its own name.
Listen(triggers, method) ==
    /\ e_event \in triggers
    /\ Len(e_ran) < MaxFlowSteps
    /\ e_event' = method
    /\ e_ran' = Append(e_ran, Ran(method, TRUE, method))
    /\ UNCHANGED <<e_backend_feedbacks, e_frontend_feedbacks, flowVars, parseVars, aggVars, chunkVars, vttVars, displayVars, ollamaVars, workVars>>

generate_business_requirement == Listen({"kickoff"}, "generate_business_requirement")

design_product == Listen({"generate_business_requirement"}, "design_product")

develop_backend == Listen({"design_product", "REWRITE_BACKEND_CODE"}, "develop_backend")

review_backend_code ==
    /\ e_event = "develop_backend"
    /\ Len(e_ran) < MaxFlowSteps
    /\ \E feedback \in Feedbacks :
          LET r == ReviewCode(e_backend_feedbacks, feedback,
                              "BACKEND_CODE_REVIEWED", "REWRITE_BACKEND_CODE")
          IN  /\ e_backend_feedbacks' = r.feedbacks
              /\ e_event' = r.out
              /\ e_ran' = Append(e_ran, Ran("review_backend_code", r.crew, r.out))
    /\ UNCHANGED <<e_frontend_feedbacks, flowVars, parseVars, aggVars, chunkVars, vttVars, displayVars, ollamaVars, workVars>>

develop_frontend ==
    Listen({"BACKEND_CODE_REVIEWED", "REWRITE_FRONTEND_CODE"}, "develop_frontend")

review_frontend_code ==
    /\ e_event = "develop_frontend"
    /\ Len(e_ran) < MaxFlowSteps
    /\ \E feedback \in Feedbacks :
          LET r == ReviewCode(e_frontend_feedbacks, feedback,
                              "FRONTEND_CODE_REVIEWED", "REWRITE_FRONTEND_CODE")
          IN  /\ e_frontend_feedbacks' = r.feedbacks
              /\ e_event' = r.out
              /\ e_ran' = Append(e_ran, Ran("review_frontend_code", r.crew, r.out))
    /\ UNCHANGED <<e_backend_feedbacks, flowVars, parseVars, aggVars, chunkVars, vttVars, displayVars, ollamaVars, workVars>>

write_test_cases == Listen({"FRONTEND_CODE_REVIEWED"}, "write_test_cases")

EngNext ==
    \/ generate_business_requirement
    \/ design_product
    \/ develop_backend
    \/ review_backend_code
    \/ develop_frontend
    \/ review_frontend_code
    \/ write_test_cases

EngSpec == EngInit /\ [][EngNext]_vars

\* ------------------------------------------------------------------ claims

\* call_models has returned its dict to main, for the round named by `round`.
RoundReturned == cm_pc = "idle" /\ round # "none"

RequestedCount == Len(Requested(round))

AbsentIndexes == {i \in 1..RequestedCount : Requested(round)[i][1] \notin clients}

PresentIndexes == (1..RequestedCount) \ AbsentIndexes

\* The response a provider's API outcome stands for.
ResponseOfOutcome(o) ==
    IF o.kind = "raise" THEN PyStr(<<"Error: ">> \o o.text)
    ELSE IF o.kind = "none" THEN PyNone
    ELSE PyStr(o.text)

\* C1: a dispatch round of N requested models of which K name a provider
\* absent from the registry returns exactly N entries, one per requested model;
\* exactly K of them are the error 'Error: No client available for <provider>',
\* those of the absent providers, and each other entry holds what the
\* provider's call returned.
C1_OneEntryPerRequestedModel ==
    RoundReturned =>
        LET items == Requested(round)
            noClient == {i \in 1..Len(responses) :
                            \E q \in Providers : responses[i][2] = NoClientError(q)}
        IN  /\ Len(responses) = RequestedCount
            /\ {responses[i][1] : i \in 1..Len(responses)}
                   = {items[i][2] : i \in 1..RequestedCount}
            /\ Cardinality(noClient) = Cardinality(AbsentIndexes)
            /\ \A i \in AbsentIndexes :
                   DictGet(responses, items[i][2]) = NoClientError(items[i][1])
            /\ \A i \in PresentIndexes :
                   /\ api[items[i][1]].kind = "text"
                          => DictGet(responses, items[i][2]) = PyStr(api[items[i][1]].text)
                   /\ api[items[i][1]].kind = "none"
                          => DictGet(responses, items[i][2]) = PyNone

\* C1 witness: a round has returned in which one requested provider was absent
\* and another answered with text.
C1_Witness ==
    /\ RoundReturned
    /\ AbsentIndexes # {}
    /\ \E i \in PresentIndexes : api[Requested(round)[i][1]].kind = "text"

\* C2: an exception raised by one model's invocation becomes that model's entry,
\* the string 'Error: ' followed by the message; the entries of its sibling
\* tasks are what their own calls returned, and call_models still returns its
\* dict to main.
C2_ExceptionBecomesErrorEntry ==
    RoundReturned =>
        LET items == Requested(round)
        IN  \A i \in PresentIndexes :
                api[items[i][1]].kind = "raise" =>
                    /\ DictHas(responses, items[i][2])
                    /\ DictGet(responses, items[i][2]).text
                           = <<"Error: ">> \o api[items[i][1]].text
                    /\ \A j \in PresentIndexes \ {i} :
                           /\ DictHas(responses, items[j][2])
                           /\ api[items[j][1]].kind = "text" =>
                                  DictGet(responses, items[j][2])
                                      = PyStr(api[items[j][1]].text)
                    /\ IF round = "answers" THEN answers = responses
                       ELSE evaluations = responses

\* C2 witness: a returned round in which one call raised and a sibling call
\* returned text.
C2_Witness ==
    /\ RoundReturned
    /\ \E i, j \in PresentIndexes :
        /\ api[Requested(round)[i][1]].kind = "raise"
        /\ api[Requested(round)[j][1]].kind = "text"

\* C3: whatever order the worker tasks of a round complete and are collected
\* in, the mapping model id -> response that call_models returns is the one
\* fixed by the registry, the requested models and the per-model results.
C3_FanInOrderIndependent ==
    RoundReturned =>
        /\ Len(responses) = RequestedCount
        /\ {responses[i] : i \in 1..Len(responses)}
               = {<<Requested(round)[i][2],
                    IF i \in AbsentIndexes THEN NoClientError(Requested(round)[i][1])
                    ELSE ResponseOfOutcome(api[Requested(round)[i][1]])>> :
                       i \in 1..RequestedCount}

\* C3 witness: a round of two submitted tasks has returned whose results were
\* collected in the reverse of the submission order.
C3_Witness ==
    /\ RoundReturned
    /\ Cardinality(PresentIndexes) >= 2
    /\ order = Reversed([i \in 1..RequestedCount |-> Requested(round)[i][2]])

\* The numbering of the run whose tasks are collected in submission order: the
\* models of the absent providers, then the others, both in request order.
SubmissionOrderNumbering ==
    LET items == Requested("answers")
        isAbsent(it) == it[1] \notin clients
        isPresent(it) == it[1] \in clients
        both == SelectSeq(items, isAbsent) \o SelectSeq(items, isPresent)
    IN  [i \in 1..Len(both) |-> both[i][2]]

\* The answers have been numbered and the judges not yet dispatched.
Numbered == round = "answers" /\ pc = "call_judges"

\* C4 as stated: the competitor numbering does not depend on the order in which
\* the answer-round tasks complete.  Some run with the same registry, requested
\* models and results collects its tasks in submission order, so the claim
\* holds exactly if every run numbers the competitors as that run does.
C4_NumberingIgnoresCompletionOrder ==
    Numbered => competitors = SubmissionOrderNumbering

\* C4 amended: the competitor numbering is one snapshot of the ResponseSet in
\* its insertion order: the models of absent providers first, in request
\* order, then the other models in the order the as_completed loop yielded
\* their results (completion order, except that results already finished when
\* the loop starts come first, in no particular order).  Runs that differ in
\* that order may give the same model different ids.
C4_NumberingFollowsCollectionOrder ==
    Numbered =>
        /\ competitors = order
        /\ SubSeq(competitors, 1, Cardinality(AbsentIndexes))
               = SubSeq(SubmissionOrderNumbering, 1, Cardinality(AbsentIndexes))

\* C4 witness: the competitors are numbered, and not as the run that collects
\* in submission order numbers them.
C4_Witness == Numbered /\ competitors # SubmissionOrderNumbering

\* C5: the numbering is one snapshot.  The answer labelled Ck in the text sent
\* to the judges is the answer of the k-th model of competitors, and a printed
\* ranking line for the id Ck names that same k-th model, for every k in 1..n.
C5_OneSnapshot ==
    /\ together # <<>> =>
           /\ Len(together) = Len(competitors)
           /\ \A k \in 1..Len(competitors) :
                  together[k] = <<IdTokens(k), DictGet(answers, competitors[k]).text>>
    /\ \A i \in 1..Len(out) :
           \A k \in 1..Len(competitors) :
               out[i].id = IdTokens(k) =>
                   /\ out[i].kind = "rank"
                   /\ out[i].what = competitors[k]

\* C5 witness: a finished run of at least two competitors whose final ranking
\* has a line for every id C1..Cn.
C5_Witness ==
    /\ pc = "done"
    /\ Len(competitors) >= 2
    /\ \A k \in 1..Len(competitors) :
           \E i \in 1..Len(out) : out[i].kind = "rank" /\ out[i].id = IdTokens(k)

\* C6: the two rounds never overlap.  Every task in flight belongs to the
\* round being dispatched, call_models has no task in flight and no result
\* uncollected when it is not running, and once the judgment round exists the
\* answer round has an entry for every requested model.
C6_RoundsDoNotOverlap ==
    /\ \A t \in running : t[1] = round
    /\ cm_pc = "idle" => running = {} /\ early = {} /\ yieldq = <<>>
    /\ round = "judgment" => Len(answers) = Len(Requested("answers"))

\* C6 witness: judgment tasks are in flight, after an answer round in which
\* tasks were submitted.
C6_Witness ==
    /\ round = "judgment"
    /\ running # {}
    /\ \E i \in 1..Len(Requested("answers")) : Requested("answers")[i][1] \in clients

StageOrder ==
    <<"INIT", "QUESTION_GENERATED", "ANSWERS_COLLECTED", "JUDGMENTS_COLLECTED",
      "RANKED", "DONE">>

\* C7: the stages a run has gone through are a prefix of INIT,
\* QUESTION_GENERATED, ANSWERS_COLLECTED, JUDGMENTS_COLLECTED, RANKED, DONE,
\* followed by FAILED at most once and last; after FAILED or DONE main has
\* returned and nothing of it is running.
C7_StagesInOrder ==
    /\ \E n \in 1..Len(StageOrder) :
           \/ stages = SubSeq(StageOrder, 1, n)
           \/ n < Len(StageOrder) /\ stages = Append(SubSeq(StageOrder, 1, n), "FAILED")
    /\ stages[Len(stages)] = "FAILED" <=> pc = "returned"
    /\ stages[Len(stages)] = "DONE" <=> pc = "done"
    /\ pc \in {"returned", "done"} => cm_pc = "idle" /\ running = {}

\* C7 witness: a run that failed after its judgments were collected.
C7_Witness ==
    /\ pc = "returned"
    /\ stages = Append(SubSeq(StageOrder, 1, 4), "FAILED")

HasLine(kind) == \E i \in 1..Len(out) : out[i].kind = kind

LastLine == out[Len(out)]

\* Every judge ranking parsed, and none lists anybody.
NoJudgeRankedAnybody ==
    /\ pc \in {"print", "done", "returned"}
    /\ \E i \in 1..Len(stages) : stages[i] = "JUDGMENTS_COLLECTED"
    /\ \A i \in 1..Len(rankings) : IterItems(rankings[i]) = <<>>

\* The run has returned on a diagnostic, with no line of a final ranking.
ReturnedOn(message) ==
    /\ pc = "returned"
    /\ LastLine = Line("diag", message)
    /\ ~HasLine("header")
    /\ ~HasLine("rank")

\* C8: on an empty registry, an empty answer set, an empty evaluation set or
\* empty aggregate scores main prints a diagnostic and returns; it does not
\* raise and prints no final ranking.
C8_FatalConditionsReturnEarly ==
    /\ pc # "raised"
    /\ (pc # "setup" /\ clients = {}) =>
           ReturnedOn("Error: No clients were successfully initialized")
    /\ (round = "answers" /\ cm_pc = "idle" /\ answers = <<>>) =>
           ReturnedOn("Error: No answers received from models")
    /\ (round = "judgment" /\ cm_pc = "idle" /\ evaluations = <<>>) =>
           ReturnedOn("Error: No evaluations received from judging models")
    /\ NoJudgeRankedAnybody => ReturnedOn("Error: No valid rankings to process")

\* C8 witness: every judge answered without a ranking and the run returned.
C8_Witness == NoJudgeRankedAnybody /\ Len(rankings) >= 2

\* C9: an evaluation that holds a well-formed object {"results": [ids...]},
\* alone or inside prose, yields exactly the list of those ids in that order.
C9_WellFormedParses ==
    (p_pc # "input" /\ p_shape.kind = "wellformed") =>
        /\ p_pc = "parsed"
        /\ p_ranking = JArr([i \in 1..Len(p_shape.ids) |-> JStr(p_shape.ids[i])])

\* C9 witness: the ranking C2, C1, C3 inside prose has been parsed.
C9_Witness ==
    /\ p_pc = "parsed"
    /\ p_shape.kind = "wellformed"
    /\ p_shape.pre # <<>>
    /\ p_shape.post # <<>>
    /\ p_shape.ids = <<IdTokens(2), IdTokens(1), IdTokens(3)>>
    /\ p_ranking.items = <<JStr(<<"C", "2">>), JStr(<<"C", "1">>), JStr(<<"C", "3">>)>>

\* An evaluation with no JSON at all: None, or text without any "{".
NoJsonAtAll(evaluation) ==
    evaluation.isNone \/ \A i \in 1..Len(evaluation.text) : evaluation.text[i] # "{"

\* The judges whose evaluation holds JSON that names the id.
JudgesNaming(id) ==
    {i \in 1..Len(evaluations) :
        /\ ~NoJsonAtAll(evaluations[i][2])
        /\ Find(evaluations[i][2].text, <<"\"">> \o id \o <<"\"">>) # 0}

JudgmentsParsed ==
    /\ pc \in {"average", "print", "done", "returned"}
    /\ \E i \in 1..Len(stages) : stages[i] = "JUDGMENTS_COLLECTED"

\* C10: a judge entry with no JSON at all, an 'Error: ...' entry included,
\* gives the empty ranking for that judge and no exception leaves the loop; the
\* aggregator counts no position from that judge, and the rankings of the other
\* judges are still aggregated and printed.
C10_NoJsonGivesEmptyRanking ==
    /\ pc # "raised"
    /\ JudgmentsParsed =>
           /\ Len(rankings) = Len(evaluations)
           /\ \A i \in 1..Len(evaluations) :
                  NoJsonAtAll(evaluations[i][2]) => rankings[i] = JArr(<<>>)
    /\ (JudgmentsParsed /\ pc # "average"
            /\ \E i \in 1..Len(evaluations) : ~NoJsonAtAll(evaluations[i][2]))
           => pc \in {"print", "done"}
    /\ pc \in {"print", "done"} =>
           \A n \in 1..Len(sorted_results) :
               sorted_results[n][2].den = Cardinality(JudgesNaming(sorted_results[n][1]))

\* C10 witness: a run finished in which one judge entry was an error string
\* and another judge's ranking was aggregated.
C10_Witness ==
    /\ pc = "done"
    /\ \E i, j \in 1..Len(evaluations) :
        /\ evaluations[i][2].text[1] = "Error: "
        /\ rankings[i] = JArr(<<>>)
        /\ rankings[j] # JArr(<<>>)
    /\ HasLine("rank")

\* The ranking a shape's ids stand for.
RankingOfIds(ids) == JArr([i \in 1..Len(ids) |-> JStr(ids[i])])

\* The regex stage on the evaluation parsed: the span it matched decodes.
RegexStageYields ==
    /\ RegexSearch(p_eval.text) # <<>>
    /\ JsonLoads(RegexSearch(p_eval.text)).ok

\* C11 as stated: the wrapped ranking {"response": {"results": [ids...]}} is
\* recovered to the list of its ids, and only by the brace-counting fallback:
\* the regex stage yields nothing and the value returned is the fallback's.
C11_WrappedOnlyByFallback ==
    (p_pc # "input" /\ p_shape.kind = "wrapped") =>
        /\ p_ranking = RankingOfIds(p_shape.ids)
        /\ ~RegexStageYields
        /\ p_parsed = ExtractCompleteJson(p_eval.text)

\* C11 amended: the wrapped ranking {"response": {"results": [ids...]}} is
\* recovered to the list of its ids by the regex stage: the span matched is the
\* inner object, it decodes, and the value returned is that object and not the
\* wrapper the brace-counting fallback would return.
C11_WrappedByRegexStage ==
    (p_pc # "input" /\ p_shape.kind = "wrapped") =>
        /\ p_pc = "parsed"
        /\ p_ranking = RankingOfIds(p_shape.ids)
        /\ RegexStageYields
        /\ p_parsed = SomeJson(JObj(<<JMem(<<"results">>, RankingOfIds(p_shape.ids))>>))
        /\ p_parsed # ExtractCompleteJson(p_eval.text)

\* C11 witness: {"response": {"results": ["C1","C2"]}} has been parsed to
\* C1, C2.
C11_Witness ==
    /\ p_pc = "parsed"
    /\ p_shape.kind = "wrapped"
    /\ p_shape.pre = <<>>
    /\ p_shape.post = <<>>
    /\ p_shape.ids = <<IdTokens(1), IdTokens(2)>>
    /\ p_ranking.items = <<JStr(<<"C", "1">>), JStr(<<"C", "2">>)>>

\* C12: a {"results" ...} object that holds a nested {...} pair is extracted
\* whole, up to its matching closing brace, so the ranking is the full list of
\* its ids, neither truncated nor lost.
C12_NestedBracesKeepRanking ==
    (p_pc # "input" /\ p_shape.kind \in {"nested", "wrappednested"}) =>
        /\ ~p_parsed.none
        /\ p_ranking = RankingOfIds(p_shape.ids)

\* C20 as stated: None is returned only after both stages failed, so whenever
\* None was returned the brace-balanced scan finds nothing in that text.
C20_NoneOnlyAfterBothStages ==
    (p_pc # "input" /\ ~p_eval.isNone /\ p_parsed.none) =>
        ExtractCompleteJson(p_eval.text).none

\* C20 amended: None is returned when the pattern matches nothing, at once and
\* whatever the brace-balanced scan would find, and otherwise only when the span
\* matched does not decode and the scan finds nothing either; a span that
\* decodes is returned.
C20_ScanOnlyAfterDecodeError ==
    (p_pc # "input" /\ ~p_eval.isNone) =>
        /\ RegexSearch(p_eval.text) = <<>> => p_parsed.none
        /\ p_shape.kind = "responsefirst" =>
               p_parsed.none /\ ~ExtractCompleteJson(p_eval.text).none
        /\ (p_parsed.none /\ RegexSearch(p_eval.text) # <<>>) =>
               ~RegexStageYields /\ ExtractCompleteJson(p_eval.text).none
        /\ RegexStageYields => ~p_parsed.none
        /\ p_shape.kind = "wrappednested" =>
               ~p_parsed.none /\ p_parsed = ExtractCompleteJson(p_eval.text)

\* C20 witness: {"response": "ok", "results": ["C1"]} gave None although the
\* scan finds an object in it.
C20_Witness ==
    /\ p_pc = "parsed"
    /\ p_shape.kind = "responsefirst"
    /\ p_shape.ids = <<IdTokens(1)>>
    /\ p_parsed.none
    /\ ~ExtractCompleteJson(p_eval.text).none
    /\ p_ranking = JArr(<<>>)

\* The ids some judge's ranking mentions, and the judges mentioning an id.
AggMentioned ==
    UNION {{a_rankings[j].items[i].s : i \in 1..Len(a_rankings[j].items)} :
              j \in 1..Len(a_rankings)}

Mentions(j, id) == \E i \in 1..Len(a_rankings[j].items) : a_rankings[j].items[i].s = id

\* The 1-based position of id in judge j's ranking.
PositionIn(j, id) ==
    CHOOSE i \in 1..Len(a_rankings[j].items) : a_rankings[j].items[i].s = id

RECURSIVE PositionTotal(_, _)
\* The sum of id's positions over the first j judges that mention it.
PositionTotal(id, j) ==
    IF j = 0 THEN 0
    ELSE PositionTotal(id, j - 1) + (IF Mentions(j, id) THEN PositionIn(j, id) ELSE 0)

SortedIds == [i \in 1..Len(a_sorted) |-> a_sorted[i][1]]

ScoreOf(id) == a_sorted[CHOOSE i \in 1..Len(a_sorted) : a_sorted[i][1] = id][2]

\* The average avg equals the fraction n/d.
AvgIs(avg, n, d) == avg.den > 0 /\ avg.num * d = n * avg.den

\* C13: every id some judge mentions has as its score the arithmetic mean of
\* its 1-based positions over the rankings that mention it, the other rankings
\* adding nothing; for [C1,C2,C3], [C2,C1,C3], [C1,C3,C2] the averages are
\* C1 = 4/3, C2 = 2, C3 = 8/3 and the final order is C1, C2, C3.
C13_MeanOfPositions ==
    a_pc = "ranked" =>
        /\ \A id \in AggMentioned :
              /\ Cardinality({i \in 1..Len(a_sorted) : a_sorted[i][1] = id}) = 1
              /\ AvgIs(ScoreOf(id), PositionTotal(id, Len(a_rankings)),
                       Cardinality({j \in 1..Len(a_rankings) : Mentions(j, id)}))
        /\ a_rankings = WorkedExample =>
              /\ SortedIds = <<IdTokens(1), IdTokens(2), IdTokens(3)>>
              /\ AvgIs(a_sorted[1][2], 4, 3)
              /\ AvgIs(a_sorted[2][2], 2, 1)
              /\ AvgIs(a_sorted[3][2], 8, 3)

\* C13 witness: the three rankings of the example have been aggregated.
C13_Witness ==
    /\ a_pc = "ranked"
    /\ a_rankings = WorkedExample
    /\ SortedIds = <<IdTokens(1), IdTokens(2), IdTokens(3)>>

\* C14: the ids of the final ordering are exactly the ids some ranking
\* mentions, each once; a competitor no ranking mentions is not in it, with a
\* worst-rank score or any other.
C14_UnrankedExcluded ==
    /\ a_pc = "ranked" =>
          /\ {SortedIds[i] : i \in 1..Len(SortedIds)} = AggMentioned
          /\ Len(a_sorted) = Cardinality(AggMentioned)
    /\ a_pc = "returned" => AggMentioned = {} /\ a_sorted = <<>>

\* C14 witness: two judges ranked C1 and C2 only; C3 is not in the ordering.
C14_Witness ==
    /\ a_pc = "ranked"
    /\ Len(a_rankings) = 2
    /\ AggMentioned = {IdTokens(1), IdTokens(2)}
    /\ \A i \in 1..Len(a_sorted) : a_sorted[i][1] # IdTokens(3)

\* Where an id was first mentioned: the first judge naming it, and its place
\* in that judge's ranking.
FirstJudge(id) == SeqMin({j \in 1..Len(a_rankings) : Mentions(j, id)})

MentionedBefore(x, y) ==
    \/ FirstJudge(x) < FirstJudge(y)
    \/ /\ FirstJudge(x) = FirstJudge(y)
       /\ PositionIn(FirstJudge(x), x) < PositionIn(FirstJudge(y), y)

\* C15: the final ordering is ascending in the average, and of two ids with
\* equal averages the one mentioned first (by the earlier judge, or earlier in
\* the same ranking) comes first.
C15_AscendingAndStable ==
    a_pc = "ranked" =>
        \A i, j \in 1..Len(a_sorted) :
            i < j =>
                /\ ~AvgLess(a_sorted[j][2], a_sorted[i][2])
                /\ ~AvgLess(a_sorted[i][2], a_sorted[j][2]) =>
                       MentionedBefore(a_sorted[i][1], a_sorted[j][1])

\* C15 witness: [C2,C1] and [C1,C2] tie C2 and C1 at 3/2; C2, mentioned first,
\* comes first.
C15_Witness ==
    /\ a_pc = "ranked"
    /\ Len(a_rankings) = 2
    /\ SortedIds = <<IdTokens(2), IdTokens(1)>>
    /\ AvgIs(a_sorted[1][2], 3, 2)
    /\ AvgIs(a_sorted[2][2], 3, 2)

\* The call made returned, and it was a call of the method named.
Chunked(method) == c_pc = "chunked" /\ c_call.method = method

\* C16: every chunk chunk_text returns has token_count <= chunk_size.
C16_ChunkTextWithinLimit ==
    Chunked("chunk_text") =>
        \A i \in 1..Len(c_chunks) : c_chunks[i].token_count <= c_chunk_size

\* C16 witness: a text of more tokens than chunk_size was cut at a sentence
\* boundary into several chunks.
C16_Witness ==
    /\ Chunked("chunk_text")
    /\ c_call.preserve_sentences
    /\ Len(Encode(c_call.text)) > c_chunk_size
    /\ Len(c_chunks) >= 2
    /\ c_chunks[1].content # Decode(Slice(Encode(c_call.text), 0, c_chunk_size))

\* C17: every chunk chunk_by_sentences returns has token_count <= chunk_size,
\* also for a single sentence longer than chunk_size and for chunks that start
\* with overlap text of the chunk before.
C17_SentenceChunksWithinLimit ==
    Chunked("chunk_by_sentences") =>
        \A i \in 1..Len(c_chunks) : c_chunks[i].token_count <= c_chunk_size

C19_EmptyReturnsMalformedRaises ==
    [][ v_pc = "ready" =>
          /\ v_call'.kind \in {"empty", "blank"} => v_result' = Returned(<<>>)
          /\ v_call'.kind \in {"nosignature", "badcue", "unencodable"} =>
                /\ v_result' = Raised("ValueError")
                /\ v_segments' = v_segments ]_vars

\* A malformed content was refused on a parser that holds segments.
C19_Witness ==
    /\ v_call.kind \in {"nosignature", "badcue"}
    /\ v_result = Raised("ValueError")
    /\ v_segments # <<>>

\* The providers a round requests that have, and that lack, a client.
RequestedProviders == {Requested(round)[i][1] : i \in 1..RequestedCount}

\* C21: the fan-out is at-most-once with no retry.  In a dispatch round no
\* provider's model is invoked twice, so a failed invocation is not issued
\* again; a provider without a client is never invoked; and when the round has
\* returned every requested model whose provider has a client was invoked
\* exactly once.
C21_AtMostOnceNoRetry ==
    /\ \A p \in Providers :
          /\ invoked[p] <= 1
          /\ p \notin clients => invoked[p] = 0
          /\ api[p].kind = "raise" => invoked[p] = 1
    /\ RoundReturned =>
          \A p \in RequestedProviders :
              invoked[p] = (IF p \in clients THEN 1 ELSE 0)

\* A round returned in which one invocation failed and another requested
\* provider had no client.
C21_Witness ==
    /\ RoundReturned
    /\ \E p \in RequestedProviders : api[p].kind = "raise" /\ invoked[p] = 1
    /\ \E p \in RequestedProviders : p \notin clients

\* C22: during a dispatch round only the orchestrator thread writes the
\* ResponseSet.  A step in which a worker task runs changes neither the
\* ResponseSet nor the client registry, and every step that changes the
\* ResponseSet is a step of call_models itself (entering it, its submit loop
\* or its collection loop), of which one happens at a time.
C22_OnlyOrchestratorWrites ==
    [][ /\ (\E p \in Providers : invoked'[p] > invoked[p]) =>
              responses' = responses /\ clients' = clients
        /\ responses' # responses =>
              /\ running' = running
              /\ \/ cm_pc = "idle" /\ cm_pc' = "submit"
                 \/ cm_pc = "submit" /\ cm_i' = cm_i + 1
                 \/ cm_pc = "collect" /\ collected' = collected + 1 ]_vars

\* The orchestrator has stored a collected response while another worker
\* task is still in flight.
C22_Witness ==
    /\ cm_pc = "collect"
    /\ collected > 0
    /\ responses # <<>>
    /\ running # {}

\* C23: in the final display an id is printed with a model name only if it is
\* Ck with 1 <= k <= n, and then the name is the k-th competitor of the
\* snapshot; every other id a judge supplied gets an error line.
C23_NameOnlyForValidId ==
    d_pc = "printed" =>
        \A n \in 1..Len(d_sorted) :
            IF \E k \in 1..Len(d_competitors) : d_sorted[n][1] = IdTokens(k)
            THEN /\ d_out[n].kind = "rank"
                 /\ d_sorted[n][1] = IdTokens(
                        CHOOSE k \in 1..Len(d_competitors) : d_out[n].what = d_competitors[k])
            ELSE d_out[n].kind = "error"

\* C24: for a text of more than chunk_size tokens and 0 <= overlap_size <
\* chunk_size, the chunks of chunk_text without sentence preservation cover
\* every token: the first starts at token 0, each following one starts no
\* later than the end of the one before, and the last ends at the last token.
C24_ChunksCoverEveryToken ==
    ( /\ Chunked("chunk_text")
      /\ ~c_call.preserve_sentences
      /\ Len(Encode(c_call.text)) > c_chunk_size
      /\ c_overlap_size < c_chunk_size ) =>
        /\ c_chunks # <<>>
        /\ c_chunks[1].start_token = 0
        /\ \A i \in 2..Len(c_chunks) :
              c_chunks[i].start_token <= c_chunks[i - 1].end_token
        /\ c_chunks[Len(c_chunks)].end_token = Len(Encode(c_call.text))

\* C25: chunk_text emits at most one chunk that ends at the last token of the
\* text, and no chunk's token range lies wholly inside the range of the chunk
\* before it.
C25_OneChunkReachesTheEnd ==
    Chunked("chunk_text") =>
        /\ Cardinality({i \in 1..Len(c_chunks) :
                          c_chunks[i].end_token = Len(Encode(c_call.text))}) <= 1
        /\ \A i \in 2..Len(c_chunks) :
              ~ ( /\ c_chunks[i - 1].start_token <= c_chunks[i].start_token
                  /\ c_chunks[i].end_token <= c_chunks[i - 1].end_token )

\* C26: for every sequence of parse calls on one parser, after parse_content
\* returned the list L the stored segments are L, so get_full_transcript() is
\* the texts of L joined by single blanks (empty when L is empty) and holds no
\* text of an earlier parse.
C26_TranscriptIsOfLastParse ==
    v_result.kind = "returned" =>
        /\ v_segments = v_result.value
        /\ GetFullTranscript(v_segments) = GetFullTranscript(v_result.value)
        /\ v_result.value = <<>> => GetFullTranscript(v_segments) = <<>>

\* C27: the "Session not initialized" guard rejects every generate_async and
\* generate_multiple_async call made outside an active 'async with' block: for
\* any sequence of enter, exit and generate calls the session is None whenever
\* no block is active, before the first entry and after an exit alike.
C27_GuardRejectsOutsideBlock ==
    /\ ~o_active /\ o_pc = "built" => o_session = "none"
    /\ \A i \in 1..Len(o_trace) :
          ( /\ o_trace[i].op \in {"generate_async", "generate_multiple_async"}
            /\ ~o_trace[i].inside ) =>
              o_trace[i].outcome = "Session not initialized"

\* C28: once a node has recorded an error in the state, every later node
\* returns the state unchanged and sends nothing to the LLM service, and
\* summarize_text returns a result that carries that error with an empty
\* summary and chunks_processed 0.
C28_ErrorShortCircuitsWorkflow ==
    [][ (w_pc \notin {"idle", "returned", "raised"} /\ Truthy(w_state.error)) =>
          /\ w_pc' # "raised"
          /\ w_state' = w_state
          /\ w_llm_calls' = w_llm_calls
          /\ w_pc = "end" =>
                w_result' = [summary |-> <<>>, chunks_processed |-> 0,
                             error |-> w_state.error] ]_vars

\* The history entries, by index, in which the method ran.
RanAt(method) == {i \in 1..Len(e_ran) : e_ran[i].method = method}

\* Those in which a reviewer's crew ran, and in which its review passed.
CrewRanAt(method) == {i \in RanAt(method) : e_ran[i].crew}

PassedAt(method, reviewed) == {i \in RanAt(method) : e_ran[i].out = reviewed}

\* C29: the rewrite loops are bounded whatever the reviewers answer.  Neither
\* feedback list holds more than MAX_REVIEW_ITERATIONS entries, each
\* component's review crew runs at most that often, the router step that
\* follows a third review returns MAX_REVIEW_ITERATIONS_EXCEEDED, and after
\* that string nothing runs: no method is enabled and the run has ended.
C29_RewriteLoopsBounded ==
    /\ Len(e_backend_feedbacks) <= MAX_REVIEW_ITERATIONS
    /\ Len(e_frontend_feedbacks) <= MAX_REVIEW_ITERATIONS
    /\ \A m \in {"review_backend_code", "review_frontend_code"} :
          /\ Cardinality(CrewRanAt(m)) <= MAX_REVIEW_ITERATIONS
          /\ \A j \in RanAt(m) :
                Cardinality({i \in CrewRanAt(m) : i < j}) = MAX_REVIEW_ITERATIONS
                    => e_ran[j].out = "MAX_REVIEW_ITERATIONS_EXCEEDED"
    /\ \A i \in 1..Len(e_ran) :
          e_ran[i].out = "MAX_REVIEW_ITERATIONS_EXCEEDED" => i = Len(e_ran)
    /\ e_event = "MAX_REVIEW_ITERATIONS_EXCEEDED" => ~ENABLED EngNext
    /\ Len(e_ran) < MaxFlowSteps

\* The backend failed three reviews, was rewritten once more, and the router
\* then ended the run.
C29_Witness ==
    /\ e_event = "MAX_REVIEW_ITERATIONS_EXCEEDED"
    /\ Len(e_backend_feedbacks) = MAX_REVIEW_ITERATIONS
    /\ \A i \in 1..Len(e_backend_feedbacks) : ~e_backend_feedbacks[i].passed_review
    /\ Cardinality(RanAt("develop_backend")) = MAX_REVIEW_ITERATIONS + 1

\* C30: develop_frontend never runs before a backend review has passed, and
\* write_test_cases runs only after a backend review and a frontend review
\* have both passed; it never runs once a component has used up its review
\* iterations without passing.
C30_StagesGatedByPassedReviews ==
    /\ \A j \in RanAt("develop_frontend") :
          \E i \in PassedAt("review_backend_code", "BACKEND_CODE_REVIEWED") : i < j
    /\ \A j \in RanAt("write_test_cases") :
          /\ \E i \in PassedAt("review_backend_code", "BACKEND_CODE_REVIEWED") : i < j
          /\ \E i \in PassedAt("review_frontend_code", "FRONTEND_CODE_REVIEWED") : i < j
          /\ \A i \in 1..j : e_ran[i].out # "MAX_REVIEW_ITERATIONS_EXCEEDED"
          /\ e_backend_feedbacks[Len(e_backend_feedbacks)].passed_review
          /\ e_frontend_feedbacks[Len(e_frontend_feedbacks)].passed_review

\* The test cases were written after the backend passed its third review and
\* the frontend its second.
C30_Witness ==
    /\ e_event = "write_test_cases"
    /\ Len(e_backend_feedbacks) = MAX_REVIEW_ITERATIONS
    /\ Len(e_frontend_feedbacks) = 2

====
